---- MODULE Spec2Model ----
(***************************************************************************)
(* Model of the cc-approve permission hook: the three-tier decision        *)
(* pipeline (fast rules, decision cache, LLM arbiter), its cache store and *)
(* its decision log.                                                       *)
(*                                                                         *)
(* Text is kept as text: commands, tool names, regular-expression sources  *)
(* and JSON serialisations are TLA+ strings, and the regular expressions   *)
(* of fast-decisions.ts are matched character by character by a small      *)
(* regular-expression evaluator (RxEnds / RegExpTest).                     *)
(***************************************************************************)
EXTENDS Integers, Sequences, FiniteSets, TLC

(***************************************************************************)
(* Characters and strings                                                  *)
(***************************************************************************)

\* s.charAt(i-1): the i-th character of s as a one-character string.
CharAt(s, i) == SubSeq(s, i, i)

\* [...chars].includes(c)
InChars(c, chars) == \E k \in 1..Len(chars) : CharAt(chars, k) = c

UpperChars == "ABCDEFGHIJKLMNOPQRSTUVWXYZ"

LowerChars == "abcdefghijklmnopqrstuvwxyz"

DigitChars == "0123456789"

\* The characters \w stands for.
WordChars == UpperChars \o LowerChars \o DigitChars \o "_"

\* The characters \s stands for (those that occur in the modelled texts).
SpaceChars == " \t\n\r"

\* The line terminators, which . does not match.
LineTerminators == "\n\r"

\* Case folding of one character, as the i flag and toLowerCase() do.
LowerChar(c) ==
  IF InChars(c, UpperChars)
  THEN CharAt(LowerChars, CHOOSE k \in 1..26 : CharAt(UpperChars, k) = c)
  ELSE c

\* String.prototype.toLowerCase, character by character
RECURSIVE toLowerCase(_)
toLowerCase(s) ==
  IF Len(s) = 0 THEN ""
  ELSE IF Len(s) = 1 THEN LowerChar(s)
  ELSE toLowerCase(SubSeq(s, 1, Len(s) \div 2))
       \o toLowerCase(SubSeq(s, Len(s) \div 2 + 1, Len(s)))

\* String.prototype.includes
Includes(s, sub) ==
  \E i \in 1..(Len(s) + 1) :
     /\ i + Len(sub) - 1 <= Len(s)
     /\ SubSeq(s, i, i + Len(sub) - 1) = sub

\* String.prototype.startsWith
StartsWith(s, prefix) ==
  /\ Len(prefix) <= Len(s)
  /\ SubSeq(s, 1, Len(prefix)) = prefix

(***************************************************************************)
(* Regular expressions.  A pattern is a syntax tree; RxEnds(r, s, i, ci)   *)
(* is the set of positions at which a match of r that starts at position i *)
(* of s can end (positions are 1..Len(s)+1, the index of the next          *)
(* character to read).  ci is the i flag.                                  *)
(***************************************************************************)
Lit(str) == [t |-> "lit", s |-> str]

OneOf(chars) == [t |-> "set", s |-> chars, neg |-> FALSE]

NoneOf(chars) == [t |-> "set", s |-> chars, neg |-> TRUE]

AnyChar == NoneOf(LineTerminators)

Cat(rs) == [t |-> "cat", rs |-> rs]

Alt(rs) == [t |-> "alt", rs |-> rs]

Star(r) == [t |-> "star", r |-> r]

Plus(r) == Cat(<<r, Star(r)>>)

Opt(r) == Alt(<<r, Lit("")>>)

Bol == [t |-> "bol"]

Eol == [t |-> "eol"]

WordB == [t |-> "wordb"]

\* \s, \S, .*, \s+
Ws == OneOf(SpaceChars)

NonWs == NoneOf(SpaceChars)

DotStar == Star(AnyChar)

Ws1 == Plus(Ws)

\* (a|b|c) over literal alternatives
Words(ws) == Alt([k \in 1..Len(ws) |-> Lit(ws[k])])

Fold(c, ci) == IF ci THEN LowerChar(c) ELSE c

IsWordAt(s, i) == i >= 1 /\ i <= Len(s) /\ InChars(CharAt(s, i), WordChars)

RECURSIVE LitAt(_, _, _, _)
LitAt(str, s, i, ci) ==
  IF str = "" THEN TRUE
  ELSE /\ i <= Len(s)
       /\ Fold(CharAt(s, i), ci) = Fold(Head(str), ci)
       /\ LitAt(Tail(str), s, i + 1, ci)

SetAt(r, s, i, ci) ==
  /\ i <= Len(s)
  /\ LET c == CharAt(s, i)
         in == \E k \in 1..Len(r.s) : Fold(CharAt(r.s, k), ci) = Fold(c, ci)
     IN  IF r.neg THEN ~in ELSE in

RECURSIVE RxEnds(_, _, _, _)
RECURSIVE RxCat(_, _, _, _, _)
RECURSIVE RxStar(_, _, _, _, _)

RxEnds(r, s, i, ci) ==
  CASE r.t = "lit"   -> IF LitAt(r.s, s, i, ci) THEN {i + Len(r.s)} ELSE {}
    [] r.t = "set"   -> IF SetAt(r, s, i, ci) THEN {i + 1} ELSE {}
    [] r.t = "bol"   -> IF i = 1 THEN {i} ELSE {}
    [] r.t = "eol"   -> IF i = Len(s) + 1 THEN {i} ELSE {}
    [] r.t = "wordb" -> IF IsWordAt(s, i - 1) # IsWordAt(s, i) THEN {i} ELSE {}
    [] r.t = "cat"   -> RxCat(r.rs, 1, s, {i}, ci)
    [] r.t = "alt"   -> UNION {RxEnds(r.rs[k], s, i, ci) : k \in 1..Len(r.rs)}
    [] r.t = "star"  ->
         IF r.r.t = "set"
         THEN {e \in i..(Len(s) + 1) :
                 \A j \in i..(e - 1) : SetAt(r.r, s, j, ci)}
         ELSE RxStar(r.r, s, {i}, {i}, ci)

\* The parts rs[k..] matched one after the other, from any position of from.
RxCat(rs, k, s, from, ci) ==
  IF k > Len(rs) \/ from = {} THEN from
  ELSE RxCat(rs, k + 1, s, UNION {RxEnds(rs[k], s, j, ci) : j \in from}, ci)

\* Zero or more matches of r: the positions reachable from the frontier.
RxStar(r, s, frontier, seen, ci) ==
  LET new == UNION {RxEnds(r, s, j, ci) : j \in frontier} \ seen
  IN  IF new = {} THEN seen ELSE RxStar(r, s, new, seen \cup new, ci)

\* RegExp.prototype.test (no g flag): some match starts somewhere in s.
RegExpTest(re, s) ==
  \E i \in 1..(Len(s) + 1) : RxEnds(re.ast, s, i, re.ci) # {}

\* A regular-expression literal /source/ or /source/i.
Rx(source, ast) == [source |-> source, ci |-> FALSE, ast |-> ast]

RxI(source, ast) == [source |-> source, ci |-> TRUE, ast |-> ast]

(***************************************************************************)
(* fast-decisions.ts: the built-in rule tables                             *)
(***************************************************************************)
\* The allow-list without Read
ShortAllowTools ==
  { "Glob", "Grep", "LS", "WebFetch", "WebSearch", "NotebookRead",
    "BashOutput", "Write", "Edit", "MultiEdit", "NotebookEdit", "TodoWrite",
    "Task" }

INSTANT_ALLOW_TOOLS ==
  { "Read", "Glob", "Grep", "LS", "WebFetch", "WebSearch", "NotebookRead",
    "BashOutput",
    "Write", "Edit", "MultiEdit", "NotebookEdit", "TodoWrite", "Task" }

INSTANT_PASSTHROUGH_TOOLS == { "AskUserQuestion" }

\* (psql|mysql|sqlite3|mongosh) and (SELECT|EXPLAIN|DESCRIBE|SHOW)
DbClients == Words(<<"psql", "mysql", "sqlite3", "mongosh">>)

ReadOnlySql == Words(<<"SELECT", "EXPLAIN", "DESCRIBE", "SHOW">>)

FAST_ALLOW_BASH_PATTERNS ==
  << RxI("source\\s+\\S*\\.env\\b.*\\b(psql|mysql|sqlite3|mongosh)\\b.*\\b(SELECT|EXPLAIN|DESCRIBE|SHOW)\\b",
         Cat(<<Lit("source"), Ws1, Star(NonWs), Lit(".env"), WordB, DotStar,
               WordB, DbClients, WordB, DotStar, WordB, ReadOnlySql, WordB>>)),
     RxI("\\.\\s+\\S*\\.env\\b.*\\b(psql|mysql|sqlite3|mongosh)\\b.*\\b(SELECT|EXPLAIN|DESCRIBE|SHOW)\\b",
         Cat(<<Lit("."), Ws1, Star(NonWs), Lit(".env"), WordB, DotStar,
               WordB, DbClients, WordB, DotStar, WordB, ReadOnlySql, WordB>>)),
     RxI("\\b(psql|mysql|sqlite3|mongosh)\\b.*-[ce]\\s+[\"']?\\s*(SELECT|EXPLAIN|DESCRIBE|SHOW)\\b",
         Cat(<<WordB, DbClients, WordB, DotStar, Lit("-"), OneOf("ce"), Ws1,
               Opt(OneOf("\"'")), Star(Ws), ReadOnlySql, WordB>>)) >>

\* ^rm\s+(-[rf]+\s+)*  followed by the rest of the pattern
RmOf(rest) ==
  Cat(<<Bol, Lit("rm"), Ws1,
        Star(Cat(<<Lit("-"), Plus(OneOf("rf")), Ws1>>))>> \o rest)

\* ^del\s+(\/[fqs]\s+)+[A-Z]:\\  followed by the rest of the pattern
DelOf(rest) ==
  Cat(<<Bol, Lit("del"), Ws1,
        Plus(Cat(<<Lit("/"), OneOf("fqs"), Ws1>>)),
        OneOf(UpperChars), Lit(":\\")>> \o rest)

\* ^git\s+push\s+
GitPush == <<Bol, Lit("git"), Ws1, Lit("push"), Ws1>>

ProtectedBranches ==
  Words(<<"main", "master", "production", "staging", "develop">>)

INSTANT_DENY_BASH_PATTERNS ==
  << \* Unix/Linux system root destruction
     Rx("^rm\\s+(-[rf]+\\s+)*\\/$", RmOf(<<Lit("/"), Eol>>)),
     Rx("^rm\\s+(-[rf]+\\s+)*\\/usr\\b", RmOf(<<Lit("/usr"), WordB>>)),
     Rx("^rm\\s+(-[rf]+\\s+)*\\/etc\\b", RmOf(<<Lit("/etc"), WordB>>)),
     Rx("^rm\\s+(-[rf]+\\s+)*\\/bin\\b", RmOf(<<Lit("/bin"), WordB>>)),
     Rx("^rm\\s+(-[rf]+\\s+)*\\/sbin\\b", RmOf(<<Lit("/sbin"), WordB>>)),
     Rx("^rm\\s+(-[rf]+\\s+)*\\/boot\\b", RmOf(<<Lit("/boot"), WordB>>)),
     Rx("^rm\\s+(-[rf]+\\s+)*\\/var\\b", RmOf(<<Lit("/var"), WordB>>)),
     Rx("^rm\\s+(-[rf]+\\s+)*\\/home\\b", RmOf(<<Lit("/home"), WordB>>)),
     Rx("^rm\\s+(-[rf]+\\s+)*~\\/?$", RmOf(<<Lit("~"), Opt(Lit("/")), Eol>>)),
     Rx("^rm\\s+(-[rf]+\\s+)*\\$HOME\\/?$",
        RmOf(<<Lit("$HOME"), Opt(Lit("/")), Eol>>)),
     \* Windows system destruction
     RxI("^(rmdir|rd)\\s+\\/s\\s+\\/q\\s+[A-Z]:\\\\$",
         Cat(<<Bol, Words(<<"rmdir", "rd">>), Ws1, Lit("/s"), Ws1, Lit("/q"),
               Ws1, OneOf(UpperChars), Lit(":\\"), Eol>>)),
     RxI("^del\\s+(\\/[fqs]\\s+)+[A-Z]:\\\\$", DelOf(<<Eol>>)),
     RxI("^del\\s+(\\/[fqs]\\s+)+[A-Z]:\\\\Windows", DelOf(<<Lit("Windows")>>)),
     RxI("^del\\s+(\\/[fqs]\\s+)+[A-Z]:\\\\System32",
         DelOf(<<Lit("System32")>>)),
     \* Disk formatting
     Rx("^mkfs\\b", Cat(<<Bol, Lit("mkfs"), WordB>>)),
     Rx("^fdisk\\s+.*--delete",
        Cat(<<Bol, Lit("fdisk"), Ws1, DotStar, Lit("--delete")>>)),
     Rx("^dd\\s+.*of=\\/dev\\/(sd[a-z]|nvme|hd[a-z])$",
        Cat(<<Bol, Lit("dd"), Ws1, DotStar, Lit("of=/dev/"),
              Alt(<<Cat(<<Lit("sd"), OneOf(LowerChars)>>), Lit("nvme"),
                    Cat(<<Lit("hd"), OneOf(LowerChars)>>)>>), Eol>>)),
     RxI("^format\\s+[A-Z]:",
         Cat(<<Bol, Lit("format"), Ws1, OneOf(UpperChars), Lit(":")>>)),
     \* Protected git operations
     RxI("^git\\s+push\\s+(-f|--force)\\s+(origin\\s+)?(main|master|production|staging|develop)\\b",
         Cat(GitPush \o <<Words(<<"-f", "--force">>), Ws1,
                          Opt(Cat(<<Lit("origin"), Ws1>>)),
                          ProtectedBranches, WordB>>)),
     RxI("^git\\s+push\\s+--force\\s+(origin\\s+)?(main|master|production|staging|develop)\\b",
         Cat(GitPush \o <<Lit("--force"), Ws1,
                          Opt(Cat(<<Lit("origin"), Ws1>>)),
                          ProtectedBranches, WordB>>)),
     RxI("^git\\s+push\\s+.*--force-with-lease\\s+.*\\b(main|master|production)\\b",
         Cat(GitPush \o <<DotStar, Lit("--force-with-lease"), Ws1, DotStar,
                          WordB, Words(<<"main", "master", "production">>),
                          WordB>>)),
     \* Fork bombs and malicious patterns
     Rx(":\\(\\)\\{\\s*:\\|:&\\s*\\};:",
        Cat(<<Lit(":(){"), Star(Ws), Lit(":|:&"), Star(Ws), Lit("};:")>>)),
     RxI("\\bfork\\s*\\(\\s*\\)\\s*while",
         Cat(<<WordB, Lit("fork"), Star(Ws), Lit("("), Star(Ws), Lit(")"),
               Star(Ws), Lit("while")>>)),
     \* Credential theft attempts
     RxI("curl.*\\|.*sh.*password",
         Cat(<<Lit("curl"), DotStar, Lit("|"), DotStar, Lit("sh"), DotStar,
               Lit("password")>>)),
     Rx("wget.*-O.*-.*\\|.*bash",
        Cat(<<Lit("wget"), DotStar, Lit("-O"), DotStar, Lit("-"), DotStar,
              Lit("|"), DotStar, Lit("bash")>>)),
     Rx("curl.*\\/etc\\/passwd",
        Cat(<<Lit("curl"), DotStar, Lit("/etc/passwd")>>)),
     Rx("curl.*\\/etc\\/shadow",
        Cat(<<Lit("curl"), DotStar, Lit("/etc/shadow")>>)),
     \* PowerShell destructive
     RxI("Remove-Item\\s+.*-Recurse.*[A-Z]:\\\\$",
         Cat(<<Lit("Remove-Item"), Ws1, DotStar, Lit("-Recurse"), DotStar,
               OneOf(UpperChars), Lit(":\\"), Eol>>)),
     RxI("Remove-Item\\s+.*-Recurse.*\\$env:SystemRoot",
         Cat(<<Lit("Remove-Item"), Ws1, DotStar, Lit("-Recurse"), DotStar,
               Lit("$env:SystemRoot")>>)) >>

(***************************************************************************)
(* Tool inputs and JSON                                                    *)
(*                                                                         *)
(* A toolInput is a JavaScript object with string values: the sequence of  *)
(* its properties [k |-> key, v |-> value] in insertion order, which is    *)
(* the order JSON.stringify writes them in.                                *)
(***************************************************************************)
Prop(key, value) == [k |-> key, v |-> value]

\* key in toolInput
HasKey(obj, key) == \E n \in 1..Len(obj) : obj[n].k = key

\* toolInput[key], for a key the object has
GetKey(obj, key) == obj[CHOOSE n \in 1..Len(obj) : obj[n].k = key].v

\* JSON.stringify's escaping of the characters of a string
JsonEscapeChar(c) ==
  CASE c = "\"" -> "\\\""
    [] c = "\\" -> "\\\\"
    [] c = "\n" -> "\\n"
    [] c = "\r" -> "\\r"
    [] c = "\t" -> "\\t"
    [] OTHER    -> c

RECURSIVE JsonEscape(_)
JsonEscape(str) ==
  IF Len(str) = 0 THEN ""
  ELSE IF Len(str) = 1 THEN JsonEscapeChar(str)
  ELSE JsonEscape(SubSeq(str, 1, Len(str) \div 2))
       \o JsonEscape(SubSeq(str, Len(str) \div 2 + 1, Len(str)))

\* JSON.stringify of a string
JsonString(str) == "\"" \o JsonEscape(str) \o "\""

RECURSIVE JsonProps(_, _)
JsonProps(obj, n) ==
  IF n > Len(obj) THEN ""
  ELSE (IF n > 1 THEN "," ELSE "")
       \o JsonString(obj[n].k) \o ":" \o JsonString(obj[n].v)
       \o JsonProps(obj, n + 1)

\* JSON.stringify(toolInput): the properties in insertion order
JsonStringify(obj) == "{" \o JsonProps(obj, 1) \o "}"

(***************************************************************************)
(* config.ts: the configuration the pipeline reads (loadConfig), and the   *)
(* compilation of operator patterns (new RegExp)                           *)
(***************************************************************************)

\* The regular expressions an operator may write in the pattern lists,
\* by source text.  A source outside this table does not compile.
OperatorRegExps ==
     ("Bash"                 :> Lit("Bash"))
  @@ ("Read"                 :> Lit("Read"))
  @@ ("Glob"                 :> Lit("Glob"))
  @@ ("MyCustomTool"         :> Lit("MyCustomTool"))
  @@ (".*"                   :> DotStar)
  @@ ("^mcp__"               :> Cat(<<Bol, Lit("mcp__")>>))
  @@ ("npm"                  :> Lit("npm"))
  @@ ("psql"                 :> Lit("psql"))
  @@ ("docker.*--privileged" :>
        Cat(<<Lit("docker"), DotStar, Lit("--privileged")>>))

\* new RegExp(pattern): the compiled expression, or a SyntaxError
NewRegExp(pattern) ==
  IF pattern \in DOMAIN OperatorRegExps
  THEN [ok |-> TRUE, re |-> Rx(pattern, OperatorRegExps[pattern])]
  ELSE [ok |-> FALSE, re |-> Rx(pattern, Lit(""))]

(***************************************************************************)
(* fast-decisions.ts: checkFastDecision                                    *)
(***************************************************************************)
Result(decision, reason) == [decision |-> decision, reason |-> reason]

\* The value of an exception that leaves the function
Thrown(message) == Result("throw", message)

\* No rule of a group applied: evaluation continues with the next group
Continue == Result("continue", "")

\* for (const pattern of patterns) { const regex = new RegExp(pattern);
\*   if (<regex matches one of texts>) return <decision> }
\* from the k-th pattern on.
RECURSIVE PatternLoop(_, _, _, _, _)
PatternLoop(patterns, k, texts, decision, reasonPrefix) ==
  IF k > Len(patterns) THEN Continue
  ELSE LET c == NewRegExp(patterns[k])
       IN  IF ~c.ok
           THEN Thrown("Invalid regular expression: /" \o patterns[k] \o "/")
           ELSE IF \E n \in 1..Len(texts) : RegExpTest(c.re, texts[n])
                THEN Result(decision, reasonPrefix \o patterns[k])
                ELSE PatternLoop(patterns, k + 1, texts, decision,
                                 reasonPrefix)

\* for (const pattern of BUILTIN) { if (pattern.test(command)) return ... }
\* from the k-th pattern on.
RECURSIVE BuiltinLoop(_, _, _, _, _)
BuiltinLoop(patterns, k, command, decision, reasonPrefix) ==
  IF k > Len(patterns) THEN Continue
  ELSE IF RegExpTest(patterns[k], command)
       THEN Result(decision, reasonPrefix \o patterns[k].source)
       ELSE BuiltinLoop(patterns, k + 1, command, decision, reasonPrefix)

\* The first group, in order, that does not continue decides.
RECURSIVE FirstOf(_, _)
FirstOf(groups, n) ==
  IF n > Len(groups) THEN Continue
  ELSE IF groups[n].decision # "continue" THEN groups[n]
       ELSE FirstOf(groups, n + 1)

\* if (toolName === "Bash") { const command = toolInput.command;
\*   if (command) { deny patterns; fast-allow patterns } }
BashRules(toolName, toolInput) ==
  IF toolName = "Bash" /\ HasKey(toolInput, "command")
                       /\ GetKey(toolInput, "command") # ""
  THEN LET command == GetKey(toolInput, "command")
       IN  FirstOf(<<BuiltinLoop(INSTANT_DENY_BASH_PATTERNS, 1, command, "deny",
                                 "Blocked destructive command pattern: "),
                     BuiltinLoop(FAST_ALLOW_BASH_PATTERNS, 1, command, "allow",
                                 "Allowed common dev workflow: ")>>, 1)
  ELSE Continue

checkFastDecision(cfg, toolName, toolInput) ==
  LET json == JsonStringify(toolInput)
      rules ==
        << PatternLoop(cfg.customDenyPatterns, 1, <<toolName, json>>, "deny",
                       "Blocked by custom deny pattern: "),
           BashRules(toolName, toolInput),
           PatternLoop(cfg.customAllowPatterns, 1, <<toolName>>, "allow",
                       "Allowed by custom pattern: "),
           PatternLoop(cfg.customPassthroughPatterns, 1, <<toolName, json>>,
                       "passthrough", "Passthrough by custom pattern: "),
           IF toolName \in INSTANT_PASSTHROUGH_TOOLS
           THEN Result("passthrough", "Tool '" \o toolName
                  \o "' requires user interaction - showing native dialog")
           ELSE Continue,
           IF toolName \in INSTANT_ALLOW_TOOLS
           THEN Result("allow", "Tool '" \o toolName
                                   \o "' is in instant-allow list")
           ELSE Continue,
           IF StartsWith(toolName, "mcp__")
           THEN Result("allow", "MCP tools are auto-approved")
           ELSE Continue,
           Result("llm", "Requires LLM analysis") >>
  IN  FirstOf(rules, 1)

(***************************************************************************)
(* project.ts: resolveProjectRoot.  The file system is the set of          *)
(* directories that hold a .git entry and the set that hold a .claude      *)
(* entry.                                                                  *)
(***************************************************************************)
GitDirs == { "/home/u/proj" }

ClaudeDirs == { "/srv/other", "/home/u" }

\* The positions of "/" in a path
SlashesOf(path) == {i \in 1..Len(path) : CharAt(path, i) = "/"}

Max(S) == CHOOSE x \in S : \A y \in S : x >= y

\* path.dirname, for paths without a trailing slash
dirname(path) ==
  IF SlashesOf(path) = {} THEN "."
  ELSE IF Max(SlashesOf(path)) = 1 THEN "/"
       ELSE SubSeq(path, 1, Max(SlashesOf(path)) - 1)

\* while (true) { if (existsSync(join(current, marker))) return current; ... }
\* The nearest ancestor of current (itself included) in dirs, or "" if none.
RECURSIVE WalkUp(_, _)
WalkUp(current, dirs) ==
  IF current \in dirs THEN current
  ELSE IF dirname(current) = current THEN ""
       ELSE WalkUp(dirname(current), dirs)

resolveProjectRoot(cwd) ==
  IF WalkUp(cwd, GitDirs) # "" THEN WalkUp(cwd, GitDirs)
  ELSE IF WalkUp(cwd, ClaudeDirs) # "" THEN WalkUp(cwd, ClaudeDirs)
       ELSE cwd

(***************************************************************************)
(* permission-handler.ts: the request schema and the responses             *)
(***************************************************************************)

\* A raw input: each field is absent ("undefined"), a "string", an "object"
\* or of another type; str and obj hold the value of a string or an object.
Field(type, str, obj) == [type |-> type, str |-> str, obj |-> obj]

Absent == Field("undefined", "", <<>>)

Str(text) == Field("string", text, <<>>)

Obj(props) == Field("object", "", props)

Num == Field("number", "", <<>>)

RawInput(tool_name, tool_input, cwd, session_id) ==
  [tool_name |-> tool_name, tool_input |-> tool_input, cwd |-> cwd,
   session_id |-> session_id]

\* types.ts: PermissionRequestInputSchema.parse succeeds
ValidInput(raw) ==
  /\ raw.tool_name.type = "string"
  /\ raw.tool_input.type = "object"
  /\ raw.cwd.type \in {"string", "undefined"}
  /\ raw.session_id.type \in {"string", "undefined"}

\* The output of handlePermissionRequest: behavior is "allow" or "deny" for
\* a structured response, "null" for passthrough, "throw" when an exception
\* left the function, "" while there is no output yet.
Output(behavior, message) == [behavior |-> behavior, message |-> message]

NoOutput == Output("", "")

createAllowResponse == Output("allow", "")

createDenyResponse(message) == Output("deny", message)

\* a || b on strings
OrElse(a, b) == IF a # "" THEN a ELSE b

(***************************************************************************)
(* llm-client.ts: queryLLM, and the judgment service it calls              *)
(***************************************************************************)

\* config.ts: join(homedir(), ".cc-approve"), for the home directory /home/u
CONFIG_DIR == "/home/u/.cc-approve"

\* getApiKey: the configured key, else the first set environment variable
getApiKey(cfg, env) ==
  IF cfg.llm.apiKey # "" THEN cfg.llm.apiKey
  ELSE IF env.OPENAI_API_KEY # "" THEN env.OPENAI_API_KEY
  ELSE IF env.ANTHROPIC_API_KEY # "" THEN env.ANTHROPIC_API_KEY
  ELSE env.LLM_API_KEY

\* What client.chat.completions.create can come back with: an exception
\* (error # ""), or a completion whose message content is missing or empty
\* (body = "none"), is not JSON (body = "text") or is the JSON object json.
Reply(error, body, json) == [error |-> error, body |-> body, json |-> json]

ServiceReplies ==
  << Reply("Connection error.", "none", <<>>),
     Reply("500 status code (no body)", "none", <<>>),
     Reply("", "none", <<>>),
     Reply("", "text", <<>>),
     Reply("", "json", <<Prop("decision", "passthrough"),
                         Prop("reason", "Let the user decide")>>),
     Reply("", "json", <<Prop("decision", "allow")>>),
     Reply("", "json", <<Prop("reason", "Standard development operation"),
                         Prop("decision", "allow")>>),
     Reply("", "json", <<Prop("decision", "deny"),
                         Prop("reason", "Dangerous operation")>>) >>

\* types.ts: LLMResponseSchema.parse -- decision is allow or deny and reason
\* is a non-empty string; anything else raises.
LLMResponseSchemaParse(json) ==
  IF /\ HasKey(json, "decision")
     /\ GetKey(json, "decision") \in {"allow", "deny"}
     /\ HasKey(json, "reason")
     /\ GetKey(json, "reason") # ""
  THEN Result(GetKey(json, "decision"), GetKey(json, "reason"))
  ELSE Thrown("Invalid LLM response")

\* types.ts: the built-in policy text and its version
CURRENT_SYSTEM_PROMPT_VERSION == 2

DEFAULT_SYSTEM_PROMPT == "built-in policy v2"

\* The system prompt of the request
SystemPromptOf(cfg) ==
  IF /\ cfg.llm.systemPromptVersion < CURRENT_SYSTEM_PROMPT_VERSION
     /\ cfg.autoUpdateSystemPrompt
  THEN DEFAULT_SYSTEM_PROMPT
  ELSE cfg.llm.systemPrompt

\* queryLLM whose catch block allows
queryLLMFailOpen(cfg, env, reply) ==
  IF getApiKey(cfg, env) = ""
  THEN [decision |-> "deny",
        reason |-> "No LLM API key configured - cannot make intelligent decision",
        calls |-> 0, systemPrompt |-> "", config |-> cfg]
  ELSE IF reply.error # "" \/ reply.body = "text"
          \/ (reply.body = "json"
              /\ LLMResponseSchemaParse(reply.json).decision = "throw")
       THEN [decision |-> "allow", reason |-> "LLM error: allowed",
             calls |-> 1, systemPrompt |-> SystemPromptOf(cfg),
             config |-> cfg]
       ELSE IF reply.body = "none"
       THEN [decision |-> "deny", reason |-> "Empty LLM response",
             calls |-> 1, systemPrompt |-> SystemPromptOf(cfg),
             config |-> cfg]
       ELSE [decision |-> LLMResponseSchemaParse(reply.json).decision,
             reason |-> LLMResponseSchemaParse(reply.json).reason,
             calls |-> 1, systemPrompt |-> SystemPromptOf(cfg),
             config |-> cfg]

\* queryLLM that returns the decision of the reply without the schema
queryLLMUnchecked(cfg, env, reply) ==
  IF getApiKey(cfg, env) = ""
  THEN [decision |-> "deny",
        reason |-> "No LLM API key configured - cannot make intelligent decision",
        calls |-> 0, systemPrompt |-> "", config |-> cfg]
  ELSE IF reply.error # "" \/ reply.body # "json"
          \/ ~HasKey(reply.json, "decision") \/ ~HasKey(reply.json, "reason")
       THEN [decision |-> "deny", reason |-> "LLM error: no decision",
             calls |-> 1, systemPrompt |-> SystemPromptOf(cfg),
             config |-> cfg]
       ELSE [decision |-> GetKey(reply.json, "decision"),
             reason |-> GetKey(reply.json, "reason"),
             calls |-> 1, systemPrompt |-> SystemPromptOf(cfg),
             config |-> cfg]

\* queryLLM that calls the service without a look at the credential
queryLLMKeyless(cfg, env, reply) ==
  IF reply.error # "" \/ reply.body = "text"
     \/ (reply.body = "json"
         /\ LLMResponseSchemaParse(reply.json).decision = "throw")
  THEN [decision |-> "deny", reason |-> "LLM error: 401 Unauthorized",
        calls |-> 1, systemPrompt |-> SystemPromptOf(cfg),
             config |-> cfg]
  ELSE IF reply.body = "none"
  THEN [decision |-> "deny", reason |-> "Empty LLM response",
        calls |-> 1, systemPrompt |-> SystemPromptOf(cfg),
             config |-> cfg]
  ELSE [decision |-> LLMResponseSchemaParse(reply.json).decision,
        reason |-> LLMResponseSchemaParse(reply.json).reason,
        calls |-> 1, systemPrompt |-> SystemPromptOf(cfg),
             config |-> cfg]

\* queryLLM whose schema asks for no reason
queryLLMAnyReason(cfg, env, reply) ==
  IF getApiKey(cfg, env) = ""
  THEN [decision |-> "deny",
        reason |-> "No LLM API key configured - cannot make intelligent decision",
        calls |-> 0, systemPrompt |-> "", config |-> cfg]
  ELSE IF reply.error # "" \/ reply.body # "json"
          \/ ~HasKey(reply.json, "decision")
          \/ (HasKey(reply.json, "decision")
              /\ GetKey(reply.json, "decision") \notin {"allow", "deny"})
       THEN [decision |-> "deny", reason |-> "LLM error: no decision",
             calls |-> 1, systemPrompt |-> SystemPromptOf(cfg),
             config |-> cfg]
       ELSE [decision |-> GetKey(reply.json, "decision"),
             reason |-> IF HasKey(reply.json, "reason")
                        THEN GetKey(reply.json, "reason") ELSE "",
             calls |-> 1, systemPrompt |-> SystemPromptOf(cfg),
             config |-> cfg]

\* queryLLM as the setup guide describes it: an older saved policy text is
\* replaced in the configuration file by the built-in one
queryLLMUpdating(cfg, env, reply) ==
  [queryLLMKeyless(cfg, env, reply) EXCEPT
     !.config = IF SystemPromptOf(cfg) = cfg.llm.systemPrompt THEN cfg
                ELSE [cfg EXCEPT
                        !.llm.systemPrompt = DEFAULT_SYSTEM_PROMPT,
                        !.llm.systemPromptVersion =
                           CURRENT_SYSTEM_PROMPT_VERSION]]

\* The result of queryLLM when the service answers reply: decision and
\* reason, the number of requests sent to the service, the system prompt
\* that was sent, and the configuration file after the call (queryLLM calls
\* loadConfig and never saveConfig or updateConfig).
queryLLM(cfg, env, reply) ==
  IF getApiKey(cfg, env) = ""
  THEN [decision |-> "deny",
        reason |-> "No LLM API key configured - cannot make intelligent decision",
        calls |-> 0, systemPrompt |-> "", config |-> cfg]
  ELSE LET r == IF reply.error # ""
                THEN Result("deny", "LLM error: " \o reply.error)
                ELSE IF reply.body = "none"
                THEN Result("deny", "Empty LLM response")
                ELSE IF reply.body = "text"
                THEN Result("deny",
                            "LLM error: Unexpected token in JSON at position 0")
                ELSE LET parsed == LLMResponseSchemaParse(reply.json)
                     IN  IF parsed.decision = "throw"
                         THEN Result("deny", "LLM error: " \o parsed.reason)
                         ELSE parsed
       IN  [decision |-> r.decision, reason |-> r.reason,
            calls |-> 1, systemPrompt |-> SystemPromptOf(cfg),
             config |-> cfg]

(***************************************************************************)
(* logger.ts: logDecision                                                  *)
(***************************************************************************)
LogRecord(toolName, decision, reason, decisionSource, sessionId, projectRoot) ==
  [toolName |-> toolName, decision |-> decision, reason |-> reason,
   decisionSource |-> decisionSource, sessionId |-> sessionId,
   projectRoot |-> projectRoot]

\* The log file after logDecision(entry) at time now
logDecision(cfg, log, entry, now) ==
  IF ~cfg.logging.enabled THEN log
  ELSE Append(log, [entry |-> entry, timestamp |-> now])

(***************************************************************************)
(* The deployments the model runs in                                       *)
(***************************************************************************)
Config(deny, allow, passthrough, cacheEnabled, ttlHours, logEnabled, apiKey, promptVersion, autoUpdate) ==
  [customDenyPatterns |-> deny, customAllowPatterns |-> allow,
   customPassthroughPatterns |-> passthrough,
   cache |-> [enabled |-> cacheEnabled, ttlHours |-> ttlHours],
   logging |-> [enabled |-> logEnabled],
   llm |-> [apiKey |-> apiKey, systemPrompt |-> "saved policy",
            systemPromptVersion |-> promptVersion],
   autoUpdateSystemPrompt |-> autoUpdate]

Env(openai, anthropic, llm) ==
  [OPENAI_API_KEY |-> openai, ANTHROPIC_API_KEY |-> anthropic,
   LLM_API_KEY |-> llm]

NoEnv == Env("", "", "")

\* Each deployment is a configuration file and a process environment.
Deployments ==
  << \* the defaults of the setup guide
     [config |-> Config(<<>>, <<>>, <<>>, TRUE, 1, TRUE, "lm-studio",
                        CURRENT_SYSTEM_PROMPT_VERSION, TRUE),
      env |-> NoEnv],
     \* no credential anywhere
     [config |-> Config(<<>>, <<>>, <<>>, TRUE, 1, TRUE, "",
                        CURRENT_SYSTEM_PROMPT_VERSION, TRUE),
      env |-> NoEnv],
     \* cache and logging switched off, credential from the environment,
     \* an older saved policy text
     [config |-> Config(<<>>, <<>>, <<>>, FALSE, 1, FALSE, "",
                        CURRENT_SYSTEM_PROMPT_VERSION - 1, TRUE),
      env |-> Env("", "sk-ant", "")],
     \* operator patterns of every kind
     [config |-> Config(<<"docker.*--privileged", "Read">>, <<"Bash">>,
                        <<"psql">>, TRUE, 1, TRUE, "lm-studio",
                        CURRENT_SYSTEM_PROMPT_VERSION - 1, FALSE),
      env |-> NoEnv],
     \* an operator deny pattern that does not compile
     [config |-> Config(<<"(">>, <<>>, <<>>, TRUE, 1, TRUE,
                        "lm-studio", CURRENT_SYSTEM_PROMPT_VERSION, TRUE),
      env |-> NoEnv],
     \* a broad operator allow pattern, a passthrough pattern that does not
     \* compile
     [config |-> Config(<<>>, <<"MyCustomTool", ".*">>, <<"(">>, TRUE,
                        1, TRUE, "lm-studio",
                        CURRENT_SYSTEM_PROMPT_VERSION, TRUE),
      env |-> NoEnv],
     \* operator passthrough patterns that name an allow-listed tool, the
     \* MCP tools and a database client
     [config |-> Config(<<"npm">>, <<>>, <<"^mcp__", "Glob", "psql">>, TRUE,
                        1, TRUE, "lm-studio",
                        CURRENT_SYSTEM_PROMPT_VERSION, TRUE),
      env |-> NoEnv],
     \* an older saved policy text, updated automatically
     [config |-> Config(<<>>, <<>>, <<>>, TRUE, 1, TRUE, "lm-studio",
                        CURRENT_SYSTEM_PROMPT_VERSION - 1, TRUE),
      env |-> NoEnv],
     \* an older saved policy text that the operator keeps
     [config |-> Config(<<>>, <<>>, <<>>, TRUE, 1, TRUE, "lm-studio",
                        CURRENT_SYSTEM_PROMPT_VERSION - 1, FALSE),
      env |-> NoEnv] >>

\* The deployments and cache files (by number) the pipeline is run in; the
\* rules of the first step are run in all of them.
Installations ==
  { <<1, 1>>, <<1, 2>>, <<1, 3>>, <<2, 1>>, <<3, 1>>, <<3, 2>>, <<3, 3>>,
    <<4, 3>>, <<5, 1>> }

(***************************************************************************)
(* The requests                                                            *)
(***************************************************************************)
NpmTest == <<Prop("command", "npm test"), Prop("description", "Run tests")>>

\* The same mapping, its keys inserted in the other order
NpmTestReordered ==
  <<Prop("description", "Run tests"), Prop("command", "npm test")>>

\* The requests (by number) the pipeline is run on; the rules of the first
\* step are run on all of them.
Requests == {1, 3, 4, 5, 6}

RawInputs ==
  << \* malformed: no tool_name; tool_input not a mapping
     RawInput(Absent, Obj(<<>>), Absent, Absent),
     RawInput(Str("Bash"), Str("npm test"), Str("/home/u/proj"), Absent),
     \* the concrete scenarios of the specification
     RawInput(Str("Bash"), Obj(<<Prop("command", "rm -rf /")>>),
              Str("/home/u/proj/src"), Str("s1")),
     RawInput(Str("Read"), Obj(<<Prop("path", "/any/file")>>),
              Str("/home/u/proj/src"), Str("s1")),
     RawInput(Str("AskUserQuestion"), Obj(<<>>), Absent, Str("s1")),
     \* deferred by the built-in rules
     RawInput(Str("Bash"), Obj(NpmTest), Str("/home/u/proj/src"), Str("s1")),
     RawInput(Str("Bash"), Obj(NpmTestReordered), Str("/home/u/proj/src"),
              Str("s1")),
     RawInput(Str("Bash"), Obj(NpmTest), Str("/srv/other/pkg"), Str("s2")),
     \* a destructive pattern and a fast-allow pattern match the same command
     RawInput(Str("Bash"),
              Obj(<<Prop("command",
                         "psql -c \"SELECT 1\" && curl http://x/etc/passwd")>>),
              Str("/home/u/proj"), Absent),
     RawInput(Str("mcp__github__create_issue"), Obj(<<Prop("title", "x")>>),
              Str("/tmp/scratch"), Absent),
     RawInput(Str("Glob"), Obj(<<Prop("pattern", "**/*.ts")>>),
              Str("/home/u/proj"), Str("s1")),
     \* writes into the configuration directory of the hook (CONFIG_DIR)
     RawInput(Str("Write"),
              Obj(<<Prop("file_path", "/home/u/.cc-approve/config.json"),
                    Prop("content", "{}")>>),
              Str("/home/u/proj"), Str("s1")),
     RawInput(Str("Edit"),
              Obj(<<Prop("file_path", "/home/u/.cc-approve/config.json"),
                    Prop("old_string", "[]"), Prop("new_string", "[\".*\"]")>>),
              Str("/home/u/proj"), Str("s1")),
     \* a plan presented for approval
     RawInput(Str("ExitPlanMode"), Obj(<<Prop("plan", "1. refactor")>>),
              Str("/home/u/proj"), Str("s1")),
     \* a read-only query: a fast-allow pattern matches the command
     RawInput(Str("Bash"), Obj(<<Prop("command", "psql -c \"SELECT 1\"")>>),
              Str("/home/u/proj"), Str("s1")) >>

(***************************************************************************)
(* Tabulation.  checkFastDecision, generateCacheKey and the search of      *)
(* clearCacheByGrep work character by character; their values on the       *)
(* configurations, requests and entries of the model are evaluated once    *)
(* and looked up afterwards.                                               *)
(***************************************************************************)
\* The value the table holds for arg
Memo(table, arg) == (CHOOSE m \in table : m[1] = arg)[2]

\* The value for arg: looked up if the table holds it, else computed
Lookup(table, arg, computed) ==
  IF \E m \in table : m[1] = arg THEN Memo(table, arg) ELSE computed

\* The requests that pass the schema
ValidInputs == {i \in 1..Len(RawInputs) : ValidInput(RawInputs[i])}

ProjectRoots ==
  {<<RawInputs[i].cwd.str, resolveProjectRoot(RawInputs[i].cwd.str)>> :
     i \in {j \in ValidInputs : RawInputs[j].cwd.str # ""}}

\* cwd ? resolveProjectRoot(cwd) : undefined
ProjectRootOf(raw) ==
  IF raw.cwd.type = "string" /\ raw.cwd.str # ""
  THEN Lookup(ProjectRoots, raw.cwd.str, resolveProjectRoot(raw.cwd.str))
  ELSE ""

FastArgs ==
  {<<Deployments[d].config, RawInputs[i].tool_name.str,
     RawInputs[i].tool_input.obj>> :
     d \in 1..Len(Deployments), i \in ValidInputs}

FastTable == {<<a, checkFastDecision(a[1], a[2], a[3])>> : a \in FastArgs}

FastDecisionOf(cfg, toolName, toolInput) ==
  Lookup(FastTable, <<cfg, toolName, toolInput>>,
         checkFastDecision(cfg, toolName, toolInput))

(***************************************************************************)
(* cache.ts: the decision cache.  A cache (CacheFile) is a function from   *)
(* keys to entries; the file approval_cache.json is absent, holds a valid  *)
(* cache, or holds something loadCache cannot use.  An undefined           *)
(* projectRoot is written "".                                              *)
(***************************************************************************)
EmptyCache == [k \in {} |-> {}]

\* createHash("sha256").update(data).digest("hex"): SHA-256 is taken to be
\* free of collisions, so a digest is identified by the text it was made of.
Sha256Hex(data) == "sha256:" \o data

\* The key without the project root
generateCacheKeyUnscoped(toolName, toolInput, projectRoot) ==
  Sha256Hex("{\"toolName\":" \o JsonString(toolName)
            \o ",\"toolInput\":" \o JsonStringify(toolInput) \o "}")

generateCacheKey(toolName, toolInput, projectRoot) ==
  Sha256Hex("{\"toolName\":" \o JsonString(toolName)
            \o ",\"toolInput\":" \o JsonStringify(toolInput)
            \o ",\"projectRoot\":" \o JsonString(projectRoot) \o "}")

KeyArgs ==
  {<<RawInputs[i].tool_name.str, RawInputs[i].tool_input.obj,
     ProjectRootOf(RawInputs[i])>> : i \in ValidInputs}

KeyTable == {<<a, generateCacheKey(a[1], a[2], a[3])>> : a \in KeyArgs}

CacheKeyOf(toolName, toolInput, projectRoot) ==
  Lookup(KeyTable, <<toolName, toolInput, projectRoot>>,
         generateCacheKey(toolName, toolInput, projectRoot))

AbsentFile == [state |-> "absent", entries |-> EmptyCache]

CorruptFile == [state |-> "corrupt", entries |-> EmptyCache]

loadCache(file) ==
  IF file.state = "valid" THEN file.entries ELSE EmptyCache

saveCache(cache) == [state |-> "valid", entries |-> cache]

\* delete cache[key]
Delete(cache, key) == [k \in (DOMAIN cache) \ {key} |-> cache[k]]

\* cache[key] = entry
Put(cache, key, entry) == (key :> entry) @@ cache

NoEntry ==
  [key |-> "", decision |-> "", reason |-> "", timestamp |-> 0,
   toolName |-> "", toolInput |-> <<>>, projectRoot |-> ""]

\* What a lookup does: hit says whether an entry is returned, entry is the
\* entry, file is the cache file afterwards, loads and saves count the
\* reads and writes of the file.
Found(hit, entry, file, loads, saves) ==
  [hit |-> hit, entry |-> entry, file |-> file, loads |-> loads,
   saves |-> saves]

\* The lookup that renews the timestamp of the entry it returns
FindEntryRenewing(cfg, file, now, key, cache) ==
  IF key \notin DOMAIN cache
  THEN Found(FALSE, NoEntry, file, 1, 0)
  ELSE IF now - cache[key].timestamp > cfg.cache.ttlHours * 60 * 60 * 1000
       THEN Found(FALSE, NoEntry, saveCache(Delete(cache, key)), 1, 1)
       ELSE Found(TRUE, cache[key],
                  saveCache(Put(cache, key,
                                [cache[key] EXCEPT !.timestamp = now])), 1, 1)

\* The lookup that returns an entry of any age
FindEntryOfAnyAge(cfg, file, now, key, cache) ==
  IF key \notin DOMAIN cache
  THEN Found(FALSE, NoEntry, file, 1, 0)
  ELSE Found(TRUE, cache[key], file, 1, 0)

\* The lookup that takes an entry of age equal to the time-to-live for
\* expired
FindEntryEarly(cfg, file, now, key, cache) ==
  IF key \notin DOMAIN cache
  THEN Found(FALSE, NoEntry, file, 1, 0)
  ELSE IF now - cache[key].timestamp >= cfg.cache.ttlHours * 60 * 60 * 1000
       THEN Found(FALSE, NoEntry, saveCache(Delete(cache, key)), 1, 1)
       ELSE Found(TRUE, cache[key], file, 1, 0)

\* Lines 56-77 of getCachedDecision: key is the key of the request, cache
\* what loadCache returned.
FindEntry(cfg, file, now, key, cache) ==
  IF key \notin DOMAIN cache
  THEN Found(FALSE, NoEntry, file, 1, 0)
  ELSE IF now - cache[key].timestamp > cfg.cache.ttlHours * 60 * 60 * 1000
       THEN Found(FALSE, NoEntry, saveCache(Delete(cache, key)), 1, 1)
       ELSE Found(TRUE, cache[key], file, 1, 0)

\* The lookup that takes what an unusable file holds for an entry
getCachedDecisionTrusting(cfg, file, now, toolName, toolInput, projectRoot) ==
  IF ~cfg.cache.enabled
  THEN Found(FALSE, NoEntry, file, 0, 0)
  ELSE IF file.state = "corrupt"
       THEN Found(TRUE, NoEntry, file, 1, 0)
       ELSE FindEntry(cfg, file, now,
                      CacheKeyOf(toolName, toolInput, projectRoot),
                      loadCache(file))

getCachedDecision(cfg, file, now, toolName, toolInput, projectRoot) ==
  IF ~cfg.cache.enabled
  THEN Found(FALSE, NoEntry, file, 0, 0)
  ELSE FindEntry(cfg, file, now,
                 CacheKeyOf(toolName, toolInput, projectRoot),
                 loadCache(file))

\* The entry stored under key
EntryAt(key, decision, reason, timestamp, toolName, toolInput, projectRoot) ==
  [key |-> key, decision |-> decision, reason |-> reason,
   timestamp |-> timestamp, toolName |-> toolName, toolInput |-> toolInput,
   projectRoot |-> projectRoot]

\* What a store does: file is the cache file afterwards.
Stored(file, loads, saves) == [file |-> file, loads |-> loads, saves |-> saves]

\* The store that saves the cache without the new entry
StoreEntryLost(file, now, key, toolName, toolInput, decision, reason, projectRoot) ==
  Stored(saveCache(loadCache(file)), 1, 1)

\* The store that records every verdict as an allow
StoreEntryAllowed(file, now, key, toolName, toolInput, decision, reason, projectRoot) ==
  Stored(saveCache(Put(loadCache(file), key,
                       EntryAt(key, "allow", reason, now, toolName,
                               toolInput, projectRoot))), 1, 1)

\* Lines 94-106 of setCachedDecision: key is the key of the request
StoreEntry(file, now, key, toolName, toolInput, decision, reason, projectRoot) ==
  Stored(saveCache(Put(loadCache(file), key,
                       EntryAt(key, decision, reason, now, toolName,
                               toolInput, projectRoot))), 1, 1)

\* The store that does not look at cache.enabled
setCachedDecisionAlways(cfg, file, now, toolName, toolInput, decision, reason, projectRoot) ==
  StoreEntry(file, now, CacheKeyOf(toolName, toolInput, projectRoot),
             toolName, toolInput, decision, reason, projectRoot)

\* The store that keeps the allows only
setCachedDecisionOfAllow(cfg, file, now, toolName, toolInput, decision, reason, projectRoot) ==
  IF ~cfg.cache.enabled \/ decision # "allow"
  THEN Stored(file, 0, 0)
  ELSE StoreEntry(file, now, CacheKeyOf(toolName, toolInput, projectRoot),
                  toolName, toolInput, decision, reason, projectRoot)

setCachedDecision(cfg, file, now, toolName, toolInput, decision, reason, projectRoot) ==
  IF ~cfg.cache.enabled
  THEN Stored(file, 0, 0)
  ELSE StoreEntry(file, now, CacheKeyOf(toolName, toolInput, projectRoot),
                  toolName, toolInput, decision, reason, projectRoot)

\* The cache files a run may start from: none, an unusable one, and one left
\* by earlier requests.
EntryOf(toolName, toolInput, projectRoot, decision, reason, timestamp) ==
  EntryAt(CacheKeyOf(toolName, toolInput, projectRoot), decision, reason,
          timestamp, toolName, toolInput, projectRoot)

PriorEntries ==
  << EntryOf("Bash", NpmTest, "/home/u/proj", "allow",
             "Standard development operation", 0),
     EntryOf("Bash", NpmTest, "/srv/other", "deny",
             "LLM error: Connection error.", 0) >>

RECURSIVE CacheOf(_, _)
CacheOf(entries, n) ==
  IF n > Len(entries) THEN EmptyCache
  ELSE Put(CacheOf(entries, n + 1), entries[n].key, entries[n])

PriorFiles == << AbsentFile, CorruptFile, saveCache(CacheOf(PriorEntries, 1)) >>

(***************************************************************************)
(* cache.ts: the clears of the cache commands                              *)
(***************************************************************************)

\* Object.keys(cache).length, and the keys a clear removes
clearCache(file) ==
  [file |-> saveCache(EmptyCache),
   result |-> Cardinality(DOMAIN loadCache(file))]

\* The clears that delete the keys of gone and save only if removed > 0
ClearKeys(file, gone) ==
  [file |-> IF Cardinality(gone) > 0
            THEN saveCache([k \in (DOMAIN loadCache(file)) \ gone |->
                              loadCache(file)[k]])
            ELSE file,
   result |-> Cardinality(gone)]

clearCacheByDecision(file, decision) ==
  ClearKeys(file, {k \in DOMAIN loadCache(file) :
                     loadCache(file)[k].decision = decision})

\* The names every object inherits from Object.prototype; cache[name] is a
\* function (or, for __proto__, an object) for each of them, which is truthy
ObjectPrototypeNames ==
  { "constructor", "toString", "toLocaleString", "valueOf", "hasOwnProperty",
    "isPrototypeOf", "propertyIsEnumerable", "__proto__" }

\* if (cache[hashKey]) { delete cache[hashKey]; saveCache(cache); return
\* true } return false: an entry is an object and truthy, and so is what the
\* cache inherits under hashKey
clearCacheByKey(file, hashKey) ==
  IF hashKey \in DOMAIN loadCache(file) \/ hashKey \in ObjectPrototypeNames
  THEN [file |-> saveCache(Delete(loadCache(file), hashKey)),
        result |-> TRUE]
  ELSE [file |-> file, result |-> FALSE]

\* The searched text without the project root
SearchableWithoutRoot(entry) ==
  toLowerCase(entry.toolName \o " " \o entry.reason \o " "
              \o JsonStringify(entry.toolInput))

\* [toolName, reason, projectRoot || "", JSON.stringify(toolInput || {})]
\*   .join(" ").toLowerCase()
Searchable(entry) ==
  toLowerCase(entry.toolName \o " " \o entry.reason \o " "
              \o entry.projectRoot \o " " \o JsonStringify(entry.toolInput))

\* searchable.includes(lowerSub)
GrepMatches(entry, substring) ==
  Includes(Searchable(entry), toLowerCase(substring))

\* The texts the cache is searched for
GrepTexts == <<"NPM", "connection", "Proj">>

\* What an entry is searched by
Searched(entry) ==
  [toolName |-> entry.toolName, reason |-> entry.reason,
   projectRoot |-> entry.projectRoot, toolInput |-> entry.toolInput]

\* The reasons an entry can hold
Reasons ==
  {queryLLM(Deployments[d].config, Deployments[d].env,
            ServiceReplies[n]).reason :
     d \in 1..Len(Deployments), n \in 1..Len(ServiceReplies)}
  \cup {PriorEntries[n].reason : n \in 1..Len(PriorEntries)}

GrepArgs ==
  {<<[toolName |-> a[1], reason |-> r, projectRoot |-> a[3],
      toolInput |-> a[2]], GrepTexts[t]>> :
     a \in KeyArgs, r \in Reasons, t \in 1..Len(GrepTexts)}

GrepTable == {<<a, GrepMatches(a[1], a[2])>> : a \in GrepArgs}

GrepMatchOf(entry, substring) ==
  Lookup(GrepTable, <<Searched(entry), substring>>,
         GrepMatches(entry, substring))

clearCacheByGrep(file, substring) ==
  ClearKeys(file, {k \in DOMAIN loadCache(file) :
                     GrepMatchOf(loadCache(file)[k], substring)})

\* entries.sort((a, b) => b.timestamp - a.timestamp): the most recent first.
\* Entries of equal timestamp keep the order of the keys in the file, which a
\* cache as a function does not record; one order is taken.
RECURSIVE SortByTimestamp(_)
SortByTimestamp(entries) ==
  IF entries = {} THEN <<>>
  ELSE LET first == CHOOSE e \in entries :
                       \A f \in entries : e.timestamp >= f.timestamp
       IN  <<first>> \o SortByTimestamp(entries \ {first})

\* projectRoot "" is the call without an argument
listCacheEntries(file, projectRoot) ==
  SortByTimestamp({loadCache(file)[k] : k \in
                     {j \in DOMAIN loadCache(file) :
                        projectRoot # ""
                        => loadCache(file)[j].projectRoot = projectRoot}})

getCacheStats(file) ==
  IF DOMAIN loadCache(file) = {}
  THEN [entries |-> 0]
  ELSE [entries |-> Cardinality(DOMAIN loadCache(file)),
        oldestTimestamp |->
          CHOOSE t \in {loadCache(file)[k].timestamp :
                          k \in DOMAIN loadCache(file)} :
             \A k \in DOMAIN loadCache(file) :
                t <= loadCache(file)[k].timestamp]

(***************************************************************************)
(* State                                                                   *)
(***************************************************************************)
VARIABLES
  config,     \* the configuration loadConfig returns (config.json)
  environ,    \* process.env
  cacheFile,  \* approval_cache.json
  logFile,    \* approval.jsonl
  now,        \* Date.now()
  inv,        \* inv[p]: the invocation of handlePermissionRequest in process p
  nreq,       \* the number of requests submitted so far
  quiet       \* neither the clock nor the cache file has changed since the
              \* last step of the handler

vars == <<config, environ, cacheFile, logFile, now, inv, nreq, quiet>>

\* The processes that run the hook
Procs == {1}

\* The number of requests of a run and of clock ticks
MaxRequests == 2

MaxTicks == 2

\* One tick of the clock is an hour
TickMs == 60 * 60 * 1000

Idle ==
  [pc |-> "idle", raw |-> 0, toolName |-> "", toolInput |-> <<>>,
   projectRoot |-> "", sessionId |-> "",
   fast |-> Result("", ""), cached |-> NoEntry, llm |-> Result("", ""),
   reply |-> 0, systemPrompt |-> "",
   out |-> NoOutput, source |-> "",
   loads |-> 0, saves |-> 0, calls |-> 0, logged |-> <<>>,
   held |-> AbsentFile, clean |-> TRUE]

Init ==
  /\ \E at \in Installations :
        /\ config = Deployments[at[1]].config
        /\ environ = Deployments[at[1]].env
        /\ cacheFile = PriorFiles[at[2]]
  /\ logFile = <<>>
  /\ now = 0
  /\ inv = [p \in Procs |-> Idle]
  /\ nreq = 0
  /\ quiet = TRUE

(***************************************************************************)
(* permission-handler.ts: handlePermissionRequest.  The function runs      *)
(* without interruption up to the await of queryLLM and again after it:    *)
(*   Receive  lines 16-97: parse, fast rules, cache lookup                 *)
(*   Complete lines 99-124: the result of queryLLM is cached, logged and   *)
(*            returned                                                     *)
(***************************************************************************)

\* logDecision({...}) followed by return: the record is handed to the
\* logger, the result is returned.
Terminal(rec, decision, reason, source, output) ==
  [rec EXCEPT !.pc = "done", !.out = output, !.source = source,
              !.logged = Append(@, LogRecord(rec.toolName, decision, reason,
                                             source, rec.sessionId,
                                             rec.projectRoot))]

\* The log file after the invocation became rec
LogOf(rec, log) ==
  IF Len(rec.logged) = 0 THEN log
  ELSE logDecision(config, log, rec.logged[Len(rec.logged)], now)

\* Lines 32-41: the fields of the parsed request number i
Parsed(i) ==
  [Idle EXCEPT !.raw = i,
               !.toolName = RawInputs[i].tool_name.str,
               !.toolInput = RawInputs[i].tool_input.obj,
               !.projectRoot = ProjectRootOf(RawInputs[i]),
               !.sessionId = RawInputs[i].session_id.str]

\* Lines 86-97: the entry of the cache is logged and returned
FromCache(rec, entry) ==
  Terminal(rec, entry.decision, "Cached: " \o entry.reason, "cache",
           IF entry.decision = "allow"
           THEN createAllowResponse
           ELSE createDenyResponse(entry.reason))

\* The invocation that asks the service also after a hit
AfterLookupAsking(rec, r) ==
  [rec EXCEPT !.loads = @ + r.loads, !.saves = @ + r.saves,
              !.cached = r.entry, !.pc = "llm"]

\* Lines 80-97: the invocation rec after the cache lookup with result r
AfterLookup(rec, r) ==
  IF r.hit
  THEN FromCache([rec EXCEPT !.loads = @ + r.loads, !.saves = @ + r.saves,
                             !.cached = r.entry], r.entry)
  ELSE [rec EXCEPT !.loads = @ + r.loads, !.saves = @ + r.saves,
                   !.cached = r.entry, !.pc = "llm"]

\* Lines 43-97: the invocation rec after checkFastDecision returned
\* fastResult; r is the result of the cache lookup.
AfterRules(rec, fastResult, r) ==
  CASE fastResult.decision = "throw" ->
         [rec EXCEPT !.fast = fastResult, !.pc = "done", !.source = "fast",
                     !.out = Output("throw", fastResult.reason)]
    [] fastResult.decision = "allow" ->
         Terminal([rec EXCEPT !.fast = fastResult], "allow",
                  OrElse(fastResult.reason, "Fast allow"),
                  "fast", createAllowResponse)
    [] fastResult.decision = "deny" ->
         Terminal([rec EXCEPT !.fast = fastResult], "deny",
                  OrElse(fastResult.reason, "Fast deny"), "fast",
                  createDenyResponse(OrElse(fastResult.reason,
                                            "Blocked by security pattern")))
    [] fastResult.decision = "passthrough" ->
         Terminal([rec EXCEPT !.fast = fastResult], "passthrough",
                  OrElse(fastResult.reason, "Fast passthrough"),
                  "fast", Output("null", ""))
    [] OTHER -> AfterLookup([rec EXCEPT !.fast = fastResult], r)

\* The invocation that takes every input for valid
AfterReceiveUnchecked(i, r) ==
  AfterRules(Parsed(i),
             FastDecisionOf(config, RawInputs[i].tool_name.str,
                            RawInputs[i].tool_input.obj), r)

\* Lines 16-97: the invocation of input i, up to its verdict or to the call
\* of queryLLM; r is the result of the cache lookup.
AfterReceive(i, r) ==
  IF ~ValidInput(RawInputs[i])
  THEN [Idle EXCEPT !.raw = i, !.pc = "done", !.source = "input",
          !.out = createDenyResponse("Invalid permission request input")]
  ELSE AfterRules(Parsed(i),
                  FastDecisionOf(config, RawInputs[i].tool_name.str,
                                 RawInputs[i].tool_input.obj), r)

\* The invocation of process p becomes rec, its last log record is written
\* and the cache file becomes file.
Becomes(p, rec, file) ==
  /\ inv' = [inv EXCEPT ![p] = rec]
  /\ logFile' = LogOf(rec, logFile)
  /\ cacheFile' = file
  /\ quiet' = TRUE

\* The cache file after the first step: that of the lookup r, if the
\* invocation rec came to it
FileAfter(rec, r) == IF rec.loads > 0 THEN r.file ELSE cacheFile

\* The lookup of request number i
LookupOf(i) ==
  getCachedDecision(config, cacheFile, now, RawInputs[i].tool_name.str,
                    RawInputs[i].tool_input.obj, ProjectRootOf(RawInputs[i]))

Receive(p, i) ==
  /\ inv[p].pc \in {"idle", "done"}
  /\ nreq < MaxRequests
  /\ Becomes(p, AfterReceive(i, LookupOf(i)),
             FileAfter(AfterReceive(i, LookupOf(i)), LookupOf(i)))
  /\ nreq' = nreq + 1
  /\ UNCHANGED <<config, environ, now>>

\* Lines 99-124: the invocation rec after queryLLM returned q for the reply
\* number n and setCachedDecision returned r
AfterQuery(rec, n, q, r) ==
  Terminal([rec EXCEPT !.llm = Result(q.decision, q.reason),
                       !.reply = IF q.calls > 0 THEN n ELSE 0,
                       !.calls = @ + q.calls,
                       !.systemPrompt = q.systemPrompt,
                       !.loads = @ + r.loads,
                       !.saves = @ + r.saves],
           q.decision, q.reason, "llm",
           IF q.decision = "allow"
           THEN createAllowResponse
           ELSE createDenyResponse(q.reason))

\* Lines 106-109: the result q of queryLLM is cached
StoreOf(rec, q) ==
  setCachedDecision(config, cacheFile, now, rec.toolName, rec.toolInput,
                    q.decision, q.reason, rec.projectRoot)

\* Lines 99-124 with the result q of queryLLM
Concluded(p, n, q) ==
  Becomes(p, AfterQuery(inv[p], n, q, StoreOf(inv[p], q)),
          StoreOf(inv[p], q).file)

\* Lines 99-124, what follows the await of queryLLM: the service answers
\* with the reply number n, the result is cached, logged and returned.
Complete(p, n) ==
  /\ inv[p].pc = "llm"
  /\ Concluded(p, n, queryLLM(config, environ, ServiceReplies[n]))
  /\ config' = queryLLM(config, environ, ServiceReplies[n]).config
  /\ UNCHANGED <<environ, now, nreq>>

(***************************************************************************)
(* The environment: the clock, the cache commands of the CLI (cache.ts),   *)
(* and damage to the cache file                                            *)
(***************************************************************************)
Tick ==
  /\ now < MaxTicks * TickMs
  /\ now' = now + TickMs
  /\ quiet' = FALSE
  /\ UNCHANGED <<config, environ, cacheFile, logFile, inv, nreq>>

\* A cache command of the CLI leaves the cache file as file
Admin(file) ==
  /\ cacheFile' = file
  /\ quiet' = (quiet /\ file = cacheFile)
  /\ UNCHANGED <<config, environ, logFile, now, inv, nreq>>

ClearCache == Admin(clearCache(cacheFile).file)

ClearCacheByDecision ==
  \E d \in {"allow", "deny"} : Admin(clearCacheByDecision(cacheFile, d).file)

\* The key is one of the list command, a mistyped one, or any other word
ClearCacheByKey ==
  \E k \in DOMAIN loadCache(cacheFile) \cup {"sha256:", "constructor"} :
     Admin(clearCacheByKey(cacheFile, k).file)

ClearCacheByGrep ==
  \E t \in 1..Len(GrepTexts) :
     Admin(clearCacheByGrep(cacheFile, GrepTexts[t]).file)

\* The file is truncated or overwritten with something that is not a cache
Damage == Admin(CorruptFile)

\* getApiKey reads the environment in every invocation: the operator of an
\* installation without a credential exports one before the next request
ProvideKey ==
  /\ getApiKey(config, environ) = ""
  /\ environ' = Env("sk-test", "", "")
  /\ UNCHANGED <<config, cacheFile, logFile, now, inv, nreq, quiet>>

Next ==
  \/ \E p \in Procs : \E i \in Requests : Receive(p, i)
  \/ \E p \in Procs : \E n \in 1..Len(ServiceReplies) : Complete(p, n)
  \/ Tick
  \/ ClearCache
  \/ ClearCacheByDecision
  \/ ClearCacheByKey
  \/ ClearCacheByGrep
  \/ Damage
  \/ ProvideKey

Spec == Init /\ [][Next]_vars

(***************************************************************************)
(* The first step of the handler alone (parse, fast rules, cache lookup),  *)
(* in every deployment, from every cache file and on every request.        *)
(***************************************************************************)
InitRules ==
  /\ \E d \in 1..Len(Deployments) :
        /\ config = Deployments[d].config
        /\ environ = Deployments[d].env
  /\ \E f \in 1..Len(PriorFiles) : cacheFile = PriorFiles[f]
  /\ logFile = <<>>
  /\ now = 0
  /\ inv = [p \in Procs |-> Idle]
  /\ nreq = 0
  /\ quiet = TRUE

NextRules == \E p \in Procs : \E i \in 1..Len(RawInputs) : Receive(p, i)

SpecRules == InitRules /\ [][NextRules]_vars

(***************************************************************************)
(* Concurrent invocations.  Every request runs the hook in a process of    *)
(* its own; the processes share approval_cache.json and nothing else.      *)
(* loadCache reads the file in one step; saveCache (writeFileSync) opens   *)
(* it, which truncates it, and writes the text in a later step.  A process *)
(* that writes after another process wrote since its open leaves its own   *)
(* text or, when the other text was longer, its text followed by the rest  *)
(* of the other: a file that does not parse.  held is the file a process   *)
(* is about to write, clean says that nobody wrote since its open.         *)
(***************************************************************************)
Racers == {1, 2}

InitRace ==
  /\ \E d \in {1, 8, 9} :
        /\ config = Deployments[d].config
        /\ environ = Deployments[d].env
  /\ cacheFile \in {PriorFiles[1], PriorFiles[3]}
  /\ logFile = <<>>
  /\ now \in {0, 2 * TickMs}
  /\ inv = [p \in Racers |-> Idle]
  /\ nreq = 0
  /\ quiet = TRUE

\* Process p becomes rec; a process that returns has written its log record
Races(p, rec) ==
  /\ inv' = [inv EXCEPT ![p] = rec]
  /\ logFile' = IF rec.pc = "done" THEN LogOf(rec, logFile) ELSE logFile
  /\ UNCHANGED <<environ, now, quiet>>

\* Lines 16-78: parse and fast rules; a deferred request goes on to the
\* cache lookup
RaceReceive(p, i) ==
  /\ inv[p].pc = "idle"
  /\ Races(p, [AfterRules(Parsed(i),
                          FastDecisionOf(config, RawInputs[i].tool_name.str,
                                         RawInputs[i].tool_input.obj),
                          Found(FALSE, NoEntry, cacheFile, 0, 0))
                 EXCEPT !.pc = IF @ = "llm" THEN "lookup" ELSE @])
  /\ nreq' = nreq + 1
  /\ UNCHANGED <<config, cacheFile>>

\* The invocation rec after getCachedDecision read the file with result r:
\* an expired entry is deleted from the copy, which is yet to be saved
AfterRaceLookup(rec, r) ==
  IF r.saves > 0
  THEN [rec EXCEPT !.loads = @ + 1, !.held = r.file, !.pc = "open"]
  ELSE AfterLookup(rec, r)

\* Lines 80-97, getCachedDecision up to its saveCache
RaceLookup(p) ==
  /\ inv[p].pc = "lookup"
  /\ Races(p, AfterRaceLookup(inv[p],
        getCachedDecision(config, cacheFile, now, inv[p].toolName,
                          inv[p].toolInput, inv[p].projectRoot)))
  /\ UNCHANGED <<config, cacheFile, nreq>>

\* Lines 99-109: queryLLM returned q for the reply number n, and
\* setCachedDecision read the file and put the entry into its copy; out and
\* logged hold what will be returned and logged after saveCache
AfterRaceAnswer(rec, n, q, r) ==
  IF r.saves > 0
  THEN [AfterQuery(rec, n, q, Stored(r.file, 1, 0))
          EXCEPT !.pc = "open", !.held = r.file]
  ELSE AfterQuery(rec, n, q, r)

RaceAnswer(p, n) ==
  /\ inv[p].pc = "llm"
  /\ Races(p, AfterRaceAnswer(inv[p], n,
                              queryLLM(config, environ, ServiceReplies[n]),
                              StoreOf(inv[p],
                                      queryLLM(config, environ,
                                               ServiceReplies[n]))))
  /\ config' = queryLLM(config, environ, ServiceReplies[n]).config
  /\ UNCHANGED <<cacheFile, nreq>>

\* saveCache: writeFileSync opens the file and truncates it
RaceOpen(p) ==
  /\ inv[p].pc = "open"
  /\ Races(p, [inv[p] EXCEPT !.pc = "write", !.clean = TRUE])
  /\ cacheFile' = CorruptFile
  /\ UNCHANGED <<config, nreq>>

\* saveCache: writeFileSync writes the text; after the save of an eviction
\* the invocation goes on to queryLLM, after the save of a store it logs and
\* returns (lines 111-124)
RaceWrite(p) ==
  /\ inv[p].pc = "write"
  /\ cacheFile' \in IF inv[p].clean THEN {inv[p].held}
                     ELSE {inv[p].held, CorruptFile}
  /\ inv' = [q \in Racers |->
               IF q = p
               THEN [inv[p] EXCEPT !.saves = @ + 1,
                                   !.pc = IF inv[p].source = "llm"
                                          THEN "done" ELSE "llm"]
               ELSE [inv[q] EXCEPT !.clean = FALSE]]
  /\ logFile' = IF inv[p].source = "llm"
                THEN LogOf(inv[p], logFile) ELSE logFile
  /\ UNCHANGED <<config, environ, now, quiet, nreq>>

NextRace ==
  \/ \E p \in Racers : \E i \in {5, 6, 8} : RaceReceive(p, i)
  \/ \E p \in Racers : RaceLookup(p)
  \/ \E p \in Racers : \E n \in {1, 7, 8} : RaceAnswer(p, n)
  \/ \E p \in Racers : RaceOpen(p)
  \/ \E p \in Racers : RaceWrite(p)

SpecRace == InitRace /\ [][NextRace]_vars

\* Every process that can take a step takes one
FairRace == SpecRace /\ \A p \in Racers : WF_vars(
  \/ \E i \in {5, 6, 8} : RaceReceive(p, i)
  \/ RaceLookup(p)
  \/ \E n \in {1, 7, 8} : RaceAnswer(p, n)
  \/ RaceOpen(p)
  \/ RaceWrite(p))

(***************************************************************************)
(* A cache command of the CLI beside a running invocation.  The command is *)
(* a process of its own: it loads the file, deletes from its copy and      *)
(* saves it, here in one step, at any moment of the invocation of          *)
(* process 1.                                                              *)
(***************************************************************************)

\* The command leaves the cache file as file; when it wrote the file, a
\* process that has opened the file is no longer alone with it
RaceClear(file) ==
  /\ cacheFile' = file
  /\ inv' = [q \in Racers |->
               [inv[q] EXCEPT !.clean = @ /\ file = cacheFile]]
  /\ UNCHANGED <<config, environ, logFile, now, nreq, quiet>>

NextClearRace ==
  \/ \E i \in {5, 6, 8} : RaceReceive(1, i)
  \/ RaceLookup(1)
  \/ \E n \in {1, 7, 8} : RaceAnswer(1, n)
  \/ RaceOpen(1)
  \/ RaceWrite(1)
  \/ RaceClear(clearCache(cacheFile).file)
  \/ \E d \in {"allow", "deny"} :
        RaceClear(clearCacheByDecision(cacheFile, d).file)
  \/ \E k \in DOMAIN loadCache(cacheFile) \cup {"sha256:", "constructor"} :
        RaceClear(clearCacheByKey(cacheFile, k).file)
  \/ \E t \in 1..Len(GrepTexts) :
        RaceClear(clearCacheByGrep(cacheFile, GrepTexts[t]).file)

SpecClearRace == InitRace /\ [][NextClearRace]_vars

(***************************************************************************)
(* Properties                                                              *)
(***************************************************************************)

\* The invocations that have returned
Returned == {p \in Procs : inv[p].pc = "done"}

\* A reply of the judgment service that is no schema-valid allow or deny
FailedReply(reply) ==
  \/ reply.error # ""
  \/ reply.body # "json"
  \/ ~HasKey(reply.json, "decision")
  \/ ~HasKey(reply.json, "reason")
  \/ /\ HasKey(reply.json, "decision")
     /\ GetKey(reply.json, "decision") \notin {"allow", "deny"}
  \/ /\ HasKey(reply.json, "reason")
     /\ GetKey(reply.json, "reason") = ""

FailedReplies ==
  {n \in 1..Len(ServiceReplies) : FailedReply(ServiceReplies[n])}

\* C1 (fail-safe): a request that the fast tier deferred, that missed the
\* cache and whose call of the judgment service failed (connection error,
\* non-2xx status, empty body, text that is no JSON, JSON outside the schema)
\* is answered Deny with a reason that names the failure, never Allow.
FailSafe ==
  \A p \in Returned :
     (inv[p].source = "llm" /\ inv[p].reply \in FailedReplies)
     => /\ inv[p].out.behavior = "deny"
        /\ \/ inv[p].out.message = "Empty LLM response"
           \/ StartsWith(inv[p].out.message, "LLM error: ")
        /\ inv[p].logged[1].decision = "deny"

\* C1 witness: the service answered with text that is no JSON and the
\* request was denied
FailSafeWitness ==
  \E p \in Returned :
     /\ inv[p].source = "llm"
     /\ inv[p].reply = 4
     /\ inv[p].fast.decision = "llm"
     /\ inv[p].loads = 2
     /\ inv[p].out.behavior = "deny"

\* The requests whose command a built-in destructive pattern matches
DestructiveRequests ==
  {i \in ValidInputs :
     /\ RawInputs[i].tool_name.str = "Bash"
     /\ HasKey(RawInputs[i].tool_input.obj, "command")
     /\ \E k \in 1..Len(INSTANT_DENY_BASH_PATTERNS) :
           RegExpTest(INSTANT_DENY_BASH_PATTERNS[k],
                      GetKey(RawInputs[i].tool_input.obj, "command"))}

\* C2: a request whose command a built-in destructive pattern matches is
\* answered Deny by the fast tier, without a call of the judgment service
\* and without a read or write of the cache, whatever the cache holds and
\* whatever the service would answer.
DestructiveDenied ==
  \A p \in Procs :
     (inv[p].pc # "idle" /\ inv[p].raw \in DestructiveRequests)
     => /\ inv[p].pc = "done"
        /\ inv[p].out.behavior = "deny"
        /\ inv[p].source = "fast"
        /\ inv[p].calls = 0
        /\ inv[p].loads = 0
        /\ inv[p].saves = 0

\* C3 (deny wins): for a Bash request whose command a built-in destructive
\* pattern matches, checkFastDecision returns Deny, also when an operator
\* allow pattern matches the tool name and when a fast-allow pattern matches
\* the same command.
DenyWins ==
  \A p \in Procs :
     (inv[p].pc # "idle" /\ inv[p].raw \in DestructiveRequests)
     => inv[p].fast.decision = "deny"

\* The fixed allow-list
FixedAllowList ==
  { "Read", "Glob", "Grep", "LS", "WebFetch", "WebSearch", "NotebookRead",
    "BashOutput", "Write", "Edit", "MultiEdit", "NotebookEdit", "TodoWrite",
    "Task" }

\* The valid requests for a tool of the fixed allow-list
AllowListed(p) ==
  /\ inv[p].pc # "idle"
  /\ inv[p].raw \in ValidInputs
  /\ inv[p].toolName \in FixedAllowList

OnlyAllowDenyCached ==
  /\ \A k \in DOMAIN loadCache(cacheFile) :
        loadCache(cacheFile)[k].decision \in {"allow", "deny"}
  /\ \A p \in Returned :
        /\ inv[p].out.behavior = "null"
           => /\ inv[p].source = "fast"
              /\ inv[p].fast.decision = "passthrough"
              /\ inv[p].loads = 0 /\ inv[p].saves = 0 /\ inv[p].calls = 0
        /\ inv[p].source = "cache" => inv[p].out.behavior \in {"allow", "deny"}
  /\ \A n \in 1..Len(logFile) :
        logFile[n].entry.decision = "passthrough"
        => logFile[n].entry.decisionSource = "fast"

\* C5 witness: the same request passed through twice, each time by the fast
\* rules, while the cache held entries
PassthroughTwiceWitness ==
  /\ Len(logFile) = 2
  /\ \A n \in 1..2 :
        /\ logFile[n].entry.toolName = "AskUserQuestion"
        /\ logFile[n].entry.decision = "passthrough"
        /\ logFile[n].entry.decisionSource = "fast"
  /\ DOMAIN loadCache(cacheFile) # {}

\* The step submits again the valid request that process p has just
\* answered Allow or Deny, and nothing has happened in between
Repeat(p) ==
  /\ inv[p].pc = "done"
  /\ quiet
  /\ inv[p].raw \in ValidInputs
  /\ inv[p].out.behavior \in {"allow", "deny"}
  /\ nreq' = nreq + 1
  /\ inv'[p].raw = inv[p].raw

SameMapping(a, b) ==
  /\ Len(a) = Len(b)
  /\ {a[n] : n \in 1..Len(a)} = {b[n] : n \in 1..Len(b)}

\* The entry is older than the time-to-live
Expired(entry) == now - entry.timestamp > config.cache.ttlHours * TickMs

\* C7 (fingerprint stability): a verdict stored for a request is found by
\* the lookup for a request with the same toolName and projectRoot whose
\* toolInput holds the same keys and values in another insertion order: no
\* lookup misses while the cache holds an unexpired entry for the same
\* mapping.
FingerprintStable ==
  \A p \in Procs :
     (inv[p].pc = "llm" /\ config.cache.enabled)
     => ~ \E k \in DOMAIN loadCache(cacheFile) :
            /\ loadCache(cacheFile)[k].toolName = inv[p].toolName
            /\ loadCache(cacheFile)[k].projectRoot = inv[p].projectRoot
            /\ SameMapping(loadCache(cacheFile)[k].toolInput, inv[p].toolInput)
            /\ ~Expired(loadCache(cacheFile)[k])

\* The step is the first step of a request of process p and comes to the
\* cache lookup
LooksUp(p) == nreq' = nreq + 1 /\ inv'[p].loads = 1

\* The key of the request process p handles after the step
NextKey(p) ==
  CacheKeyOf(inv'[p].toolName, inv'[p].toolInput, inv'[p].projectRoot)

\* C8 (expiry): the lookup of an entry older than the time-to-live finds
\* nothing and removes exactly that entry from the file; an entry of age at
\* most the time-to-live is returned and the file is left alone.  No step of
\* the pipeline and no tick of the clock removes any other entry.
ExpiryLazy ==
  [][\A p \in Procs :
       /\ LooksUp(p) /\ NextKey(p) \in DOMAIN loadCache(cacheFile)
          => IF Expired(loadCache(cacheFile)[NextKey(p)])
             THEN /\ inv'[p].pc = "llm"
                  /\ DOMAIN loadCache(cacheFile')
                       = (DOMAIN loadCache(cacheFile)) \ {NextKey(p)}
             ELSE /\ inv'[p].pc = "done"
                  /\ inv'[p].source = "cache"
                  /\ inv'[p].cached = loadCache(cacheFile)[NextKey(p)]
                  /\ cacheFile' = cacheFile
       /\ (inv' # inv \/ now' # now)
          => \A k \in DOMAIN loadCache(cacheFile) :
                \/ /\ k \in DOMAIN loadCache(cacheFile')
                   /\ \/ loadCache(cacheFile')[k] = loadCache(cacheFile)[k]
                      \/ inv[p].pc = "llm" /\ k = NextKey(p)
                \/ /\ LooksUp(p) /\ k = NextKey(p)
                   /\ Expired(loadCache(cacheFile)[k])]_vars

\* C8 witness: a lookup has removed the expired entry of its request, and
\* another expired entry is still in the file
ExpiryWitness ==
  \E p \in Procs :
     /\ inv[p].pc = "llm"
     /\ inv[p].saves = 1
     /\ \E k \in DOMAIN loadCache(cacheFile) : Expired(loadCache(cacheFile)[k])

\* C9: with the cache disabled no step of the pipeline reads or writes the
\* cache file, whatever it holds, no request is answered from the cache, and
\* every request the fast tier defers goes to the Model Arbiter.
DisabledCacheTransparent ==
  [][\A p \in Procs :
       (~config.cache.enabled /\ inv'[p] # inv[p])
       => /\ cacheFile' = cacheFile
          /\ inv'[p].loads = 0 /\ inv'[p].saves = 0
          /\ inv'[p].source # "cache"
          /\ inv'[p].fast.decision = "llm"
             => \/ inv'[p].pc = "llm"
                \/ inv'[p].pc = "done" /\ inv'[p].source = "llm"]_vars

\* C9 witness: with the cache disabled, the request whose entry the cache
\* file holds was answered by the Model Arbiter
DisabledCacheWitness ==
  \E p \in Returned :
     /\ ~config.cache.enabled
     /\ inv[p].raw = 6
     /\ cacheFile = PriorFiles[3]
     /\ inv[p].source = "llm"
     /\ inv[p].calls = 1

\* C10: every request, well-formed or not, gets exactly one verdict and
\* hands exactly one record to the logger.
OneVerdictOneRecord ==
  \A p \in Returned :
     /\ inv[p].out.behavior \in {"allow", "deny", "null"}
     /\ Len(inv[p].logged) = 1

\* C11: no pattern of the operator lists, compiling or not, makes the
\* evaluation of the rules fail: checkFastDecision returns a verdict and no
\* exception leaves handlePermissionRequest.
RuleErrorsAbsorbed ==
  \A p \in Procs :
     inv[p].pc # "idle"
     => /\ inv[p].fast.decision # "throw"
        /\ inv[p].out.behavior # "throw"

\* C12: a request that fails the schema is answered Deny with the reason
\* "Invalid permission request input" at once: the fast rules are not
\* evaluated, the cache file is neither read nor written, the judgment
\* service is not called.
MalformedDenied ==
  [][\A p \in Procs :
       (nreq' = nreq + 1 /\ inv'[p].raw \notin ValidInputs)
       => /\ inv'[p].pc = "done"
          /\ inv'[p].out = Output("deny", "Invalid permission request input")
          /\ inv'[p].fast = Idle.fast
          /\ inv'[p].cached = Idle.cached
          /\ inv'[p].llm = Idle.llm
          /\ inv'[p].loads = 0 /\ inv'[p].saves = 0 /\ inv'[p].calls = 0
          /\ cacheFile' = cacheFile]_vars

\* C12 witness: the request without a tool_name was denied while the cache
\* file held entries
MalformedWitness ==
  \E p \in Returned :
     /\ inv[p].raw \notin ValidInputs
     /\ RawInputs[inv[p].raw].tool_name.type = "undefined"
     /\ inv[p].out.behavior = "deny"
     /\ DOMAIN loadCache(cacheFile) # {}

\* C13: with no credential in the configuration and none in the
\* environment, a request that was deferred by the fast rules and missed the
\* cache is answered Deny with a reason that names the missing credential,
\* and no request is sent to the judgment service.
NoCredentialDenied ==
  \A p \in Returned :
     (inv[p].source = "llm" /\ config.llm.apiKey = "" /\ environ = NoEnv)
     => /\ inv[p].out =
             Output("deny",
               "No LLM API key configured - cannot make intelligent decision")
        /\ inv[p].calls = 0
        /\ inv[p].reply = 0
        /\ inv[p].logged[1].decision = "deny"

\* C13 witness: without a credential, the deferred request npm test was
\* denied after a cache miss
NoCredentialWitness ==
  \E p \in Returned :
     /\ config.llm.apiKey = "" /\ environ = NoEnv
     /\ inv[p].raw = 6
     /\ inv[p].fast.decision = "llm"
     /\ inv[p].source = "llm"
     /\ inv[p].loads = 2
     /\ inv[p].out.behavior = "deny"

\* The keys of the requests of the model
RequestKeys == {m[2] : m \in KeyTable}

\* What the cache commands answer on an unusable file
CorruptReadsEmpty ==
  cacheFile.state = "corrupt"
  => /\ loadCache(cacheFile) = EmptyCache
     /\ listCacheEntries(cacheFile, "") = <<>>
     /\ listCacheEntries(cacheFile, "/home/u/proj") = <<>>
     /\ getCacheStats(cacheFile) = [entries |-> 0]
     /\ clearCache(cacheFile).result = 0
     /\ \A d \in {"allow", "deny"} :
           clearCacheByDecision(cacheFile, d).result = 0
     /\ \A k \in RequestKeys : clearCacheByKey(cacheFile, k).result = FALSE
     /\ \A t \in 1..Len(GrepTexts) :
           clearCacheByGrep(cacheFile, GrepTexts[t]).result = 0

\* What the steps do to an unusable file
CorruptStepsEmpty ==
  cacheFile.state = "corrupt"
  => /\ \A p \in Procs :
           LooksUp(p) => (inv'[p].pc = "llm" /\ cacheFile' = cacheFile)
     /\ \A p \in Procs :
           (inv[p].pc = "llm" /\ inv'[p].pc = "done" /\ config.cache.enabled)
           => /\ cacheFile'.state = "valid"
              /\ DOMAIN loadCache(cacheFile') = {NextKey(p)}
              /\ loadCache(cacheFile')[NextKey(p)].decision
                   = inv'[p].llm.decision
     /\ (inv' = inv /\ now' = now)
        => cacheFile' \in {cacheFile, saveCache(EmptyCache)}

\* C14: a cache file that cannot be parsed or fails the schema is an empty
\* cache to every operation: list and stats report nothing, the clears
\* remove nothing, a lookup finds nothing, so that the request goes on to the
\* Model Arbiter, and a store writes a cache that holds the new entry alone.
CorruptStoreEmpty == [] CorruptReadsEmpty /\ [][CorruptStepsEmpty]_vars

\* C14 witness: the lookup of a deferred request has just run on an
\* unusable file and the request waits for the Model Arbiter
CorruptStoreWitness ==
  /\ cacheFile = CorruptFile
  /\ quiet
  /\ \E p \in Procs : inv[p].pc = "llm" /\ inv[p].loads = 1

\* The key of the request of process p
KeyOf(p) == CacheKeyOf(inv[p].toolName, inv[p].toolInput, inv[p].projectRoot)

\* C15: whatever the judgment service answers, queryLLM returns Allow or Deny
\* with a reason that is not empty, and an invocation decided by the Model
\* Arbiter returns, logs and caches that Allow or Deny.
ArbiterAllowOrDeny ==
  /\ \A n \in 1..Len(ServiceReplies) :
        /\ queryLLM(config, environ, ServiceReplies[n]).decision
             \in {"allow", "deny"}
        /\ queryLLM(config, environ, ServiceReplies[n]).reason # ""
  /\ \A p \in Returned :
        inv[p].source = "llm"
        => /\ inv[p].llm.decision \in {"allow", "deny"}
           /\ inv[p].llm.reason # ""
           /\ inv[p].out.behavior = inv[p].llm.decision
           /\ inv[p].logged[1].decision = inv[p].llm.decision
           /\ (quiet /\ config.cache.enabled)
              => /\ KeyOf(p) \in DOMAIN loadCache(cacheFile)
                 /\ loadCache(cacheFile)[KeyOf(p)].decision
                      = inv[p].llm.decision
                 /\ loadCache(cacheFile)[KeyOf(p)].reason = inv[p].llm.reason

\* C15 witness: the service answered with the decision passthrough and the
\* request was denied and the Deny cached
ArbiterWitness ==
  \E p \in Returned :
     /\ inv[p].source = "llm"
     /\ inv[p].reply = 5
     /\ inv[p].out.behavior = "deny"
     /\ quiet
     /\ KeyOf(p) \in DOMAIN loadCache(cacheFile)

\* C16: the key of an entry is the fingerprint of its toolName, toolInput
\* and projectRoot; requests that differ only in the project root have
\* different fingerprints; a request answered from the cache is answered with
\* an entry of its own project root.
ScopedByProject ==
  /\ \A a \in KeyArgs : \A b \in KeyArgs :
        (a[1] = b[1] /\ a[2] = b[2] /\ a[3] # b[3])
        => CacheKeyOf(a[1], a[2], a[3]) # CacheKeyOf(b[1], b[2], b[3])
  /\ \A k \in DOMAIN loadCache(cacheFile) :
        k = CacheKeyOf(loadCache(cacheFile)[k].toolName,
                       loadCache(cacheFile)[k].toolInput,
                       loadCache(cacheFile)[k].projectRoot)
  /\ \A p \in Returned :
        inv[p].source = "cache"
        => /\ inv[p].cached.projectRoot = inv[p].projectRoot
           /\ inv[p].cached.toolName = inv[p].toolName
           /\ inv[p].cached.toolInput = inv[p].toolInput
           /\ inv[p].out.behavior = inv[p].cached.decision

\* C16 witness: npm test in /srv/other was answered with the Deny cached
\* there, while the cache held an Allow for npm test in /home/u/proj
ScopedWitness ==
  \E p \in Returned :
     /\ inv[p].source = "cache"
     /\ inv[p].projectRoot = "/srv/other"
     /\ inv[p].out.behavior = "deny"
     /\ \E k \in DOMAIN loadCache(cacheFile) :
           /\ loadCache(cacheFile)[k].toolName = inv[p].toolName
           /\ loadCache(cacheFile)[k].toolInput = inv[p].toolInput
           /\ loadCache(cacheFile)[k].projectRoot = "/home/u/proj"
           /\ loadCache(cacheFile)[k].decision = "allow"

\* The requests that write a file inside the configuration directory
ConfigWrites ==
  {i \in ValidInputs :
     /\ RawInputs[i].tool_name.str \in {"Write", "Edit", "MultiEdit"}
     /\ HasKey(RawInputs[i].tool_input.obj, "file_path")
     /\ StartsWith(GetKey(RawInputs[i].tool_input.obj, "file_path"),
                   CONFIG_DIR \o "/")}

\* C17 (config protection): a Write, Edit or MultiEdit of a file inside the
\* configuration directory of the hook is passed through to the dialog; it
\* is never allowed automatically.
ConfigProtected ==
  \A p \in Procs :
     (inv[p].pc # "idle" /\ inv[p].raw \in ConfigWrites)
     => /\ inv[p].pc = "done"
        /\ inv[p].out.behavior = "null"

\* No operator pattern is configured
NoOperatorPatterns ==
  /\ config.customDenyPatterns = <<>>
  /\ config.customAllowPatterns = <<>>
  /\ config.customPassthroughPatterns = <<>>

\* C18: with no operator patterns, AskUserQuestion and ExitPlanMode are
\* passed through by the fast tier, without a read or write of the cache and
\* without a call of the judgment service.
HumanToolsPassThrough ==
  \A p \in Procs :
     ( /\ inv[p].pc # "idle"
       /\ inv[p].raw \in ValidInputs
       /\ inv[p].toolName \in {"AskUserQuestion", "ExitPlanMode"}
       /\ NoOperatorPatterns )
     => /\ inv[p].pc = "done"
        /\ inv[p].out.behavior = "null"
        /\ inv[p].source = "fast"
        /\ inv[p].loads = 0 /\ inv[p].saves = 0 /\ inv[p].calls = 0

\* A pattern of the operator list compiles and matches one of the texts
OperatorMatch(patterns, texts) ==
  \E k \in 1..Len(patterns) :
     /\ NewRegExp(patterns[k]).ok
     /\ \E n \in 1..Len(texts) : RegExpTest(NewRegExp(patterns[k]).re, texts[n])

\* C20 (operator overrides win): a request that an operator passthrough
\* pattern matches (tool name or serialized toolInput), and no operator deny
\* pattern, no operator allow pattern and no destructive pattern, is passed
\* through, never allowed by a built-in rule; a request that an operator
\* deny pattern matches is denied.
OperatorOverridesWin ==
  \A p \in Procs :
     (inv[p].pc # "idle" /\ inv[p].raw \in ValidInputs)
     => /\ OperatorMatch(config.customDenyPatterns,
                         <<inv[p].toolName, JsonStringify(inv[p].toolInput)>>)
           => inv[p].out.behavior = "deny"
        /\ ( /\ OperatorMatch(config.customPassthroughPatterns,
                    <<inv[p].toolName, JsonStringify(inv[p].toolInput)>>)
             /\ ~OperatorMatch(config.customDenyPatterns,
                    <<inv[p].toolName, JsonStringify(inv[p].toolInput)>>)
             /\ ~OperatorMatch(config.customAllowPatterns, <<inv[p].toolName>>)
             /\ inv[p].raw \notin DestructiveRequests )
           => inv[p].out.behavior = "null"

\* The entries of the cache file were put there before the race or hold the
\* verdict that queryLLM returned to a process whose request has their key
RaceEntriesRendered ==
  \A k \in DOMAIN loadCache(cacheFile) :
     \/ \E n \in 1..Len(PriorEntries) :
           loadCache(cacheFile)[k] = PriorEntries[n]
     \/ \E p \in Racers :
           /\ inv[p].source = "llm"
           /\ KeyOf(p) = k
           /\ inv[p].llm.decision \in {"allow", "deny"}
           /\ loadCache(cacheFile)[k]
                = EntryAt(k, inv[p].llm.decision, inv[p].llm.reason, now,
                          inv[p].toolName, inv[p].toolInput,
                          inv[p].projectRoot)

\* A process that returned gave one verdict and wrote one log record
RaceOneVerdict ==
  /\ \A p \in Racers :
        inv[p].pc = "done"
        => /\ inv[p].out.behavior \in {"allow", "deny", "null"}
           /\ Len(inv[p].logged) = 1
           /\ inv[p].source = "llm"
              => inv[p].out.behavior = inv[p].llm.decision
  /\ Len(logFile) = Cardinality({p \in Racers : inv[p].pc = "done"})

\* C19: however the steps of two concurrent invocations on one cache file
\* interleave, every entry of the file holds a verdict that queryLLM returned
\* for a request with the key of the entry (or was there before), every
\* invocation that returned gave one verdict, and every invocation returns.
RaceOnlyLosesEntries ==
  /\ [](RaceEntriesRendered /\ RaceOneVerdict)
  /\ <>[](\A p \in Racers : inv[p].pc = "done")

\* Both invocations were decided by queryLLM for requests with different
\* keys and returned, and the file holds the entry of one of them only
RaceWitness ==
  /\ \A p \in Racers : inv[p].pc = "done" /\ inv[p].source = "llm"
  /\ KeyOf(1) # KeyOf(2)
  /\ KeyOf(1) \in DOMAIN loadCache(cacheFile)
  /\ KeyOf(2) \notin DOMAIN loadCache(cacheFile)
  /\ loadCache(cacheFile)[KeyOf(1)].decision = "deny"

\* The verdict of a returned invocation: that of the tier that decided it
VerdictOf(rec) ==
  CASE rec.source = "fast" -> rec.fast
    [] rec.source = "cache" -> Result(rec.cached.decision, rec.cached.reason)
    [] rec.source = "llm" -> rec.llm
    [] OTHER -> Result("deny", "Invalid permission request input")

\* C21: an invocation that ended gave the output of its verdict: allow
\* without a message for an allow, deny with the reason of the verdict as
\* message for a deny, null for a passthrough, and nothing else.
OutputEncodesVerdict ==
  \A p \in Returned :
     \/ /\ VerdictOf(inv[p]).decision = "allow"
        /\ inv[p].out = Output("allow", "")
     \/ /\ VerdictOf(inv[p]).decision = "deny"
        /\ inv[p].out = Output("deny", VerdictOf(inv[p]).reason)
     \/ /\ VerdictOf(inv[p]).decision = "passthrough"
        /\ inv[p].out = Output("null", "")

\* A pattern of a built-in list matches the command of the shell tool
BuiltinMatch(patterns, toolName, toolInput) ==
  /\ toolName = "Bash"
  /\ HasKey(toolInput, "command")
  /\ GetKey(toolInput, "command") # ""
  /\ \E k \in 1..Len(patterns) :
        RegExpTest(patterns[k], GetKey(toolInput, "command"))

\* The first of the nine ordered categories that applies to the request
CategoryVerdict(cfg, toolName, toolInput) ==
  CASE OperatorMatch(cfg.customDenyPatterns,
                     <<toolName, JsonStringify(toolInput)>>) -> "deny"
    [] BuiltinMatch(INSTANT_DENY_BASH_PATTERNS, toolName, toolInput) -> "deny"
    [] BuiltinMatch(FAST_ALLOW_BASH_PATTERNS, toolName, toolInput)
         /\ ~OperatorMatch(cfg.customDenyPatterns,
                           <<toolName, JsonStringify(toolInput)>>)
         /\ ~BuiltinMatch(INSTANT_DENY_BASH_PATTERNS, toolName, toolInput)
         -> "allow"
    [] OTHER ->
         IF OperatorMatch(cfg.customAllowPatterns, <<toolName>>)
         THEN "allow"
         ELSE IF OperatorMatch(cfg.customPassthroughPatterns,
                               <<toolName, JsonStringify(toolInput)>>)
         THEN "passthrough"
         ELSE IF toolName \in INSTANT_PASSTHROUGH_TOOLS THEN "passthrough"
         ELSE IF toolName \in FixedAllowList THEN "allow"
         ELSE IF StartsWith(toolName, "mcp__") THEN "allow"
         ELSE "llm"

\* C22: for every valid request and every operator configuration,
\* checkFastDecision returns the verdict of the first of the nine ordered
\* categories that applies (operator deny, built-in destructive, fast-allow
\* workflow, operator allow, operator passthrough, fixed passthrough, fixed
\* allow-list, mcp__ prefix, defer), and the same verdict whenever it is
\* called with the same request and configuration.
FastIsCategoryFold ==
  \A p \in Procs :
     (inv[p].pc # "idle" /\ inv[p].raw \in ValidInputs)
     => /\ inv[p].fast.decision
             = CategoryVerdict(config, inv[p].toolName, inv[p].toolInput)
        /\ inv[p].fast
             = checkFastDecision(config, inv[p].toolName, inv[p].toolInput)

\* The tiers an invocation went through: the cache file is read or written
\* only after the rules deferred, queryLLM is awaited and the service called
\* only after the rules deferred and the lookup returned no entry, and the
\* service is called once at most
TiersInOrder ==
  \A p \in Procs :
     /\ (inv[p].loads > 0 \/ inv[p].saves > 0 \/ inv[p].cached # NoEntry)
        => inv[p].fast.decision = "llm"
     /\ (inv[p].pc = "llm" \/ inv[p].source = "llm" \/ inv[p].calls > 0)
        => /\ inv[p].fast.decision = "llm"
           /\ inv[p].cached = NoEntry
     /\ inv[p].calls <= 1
     /\ inv[p].pc = "done" /\ inv[p].reply \in FailedReplies
        => /\ inv[p].calls = 1
           /\ inv[p].out.behavior = "deny"

\* A call of the service ends the invocation that made it
CallEndsInvocation ==
  \A p \in Procs :
     /\ inv'[p].calls > inv[p].calls
        => inv[p].pc = "llm" /\ inv[p].calls = 0 /\ inv'[p].pc = "done"
     /\ (inv[p].pc = "llm" /\ inv'[p] # inv[p]) => inv'[p].pc = "done"

\* C23: in every invocation the cache is consulted only if the rules
\* deferred, the judgment service is called only if the rules deferred and
\* the lookup missed, the service is called once at most, and after a failed
\* call the invocation returns Deny without a second call.
TierSequencing == [] TiersInOrder /\ [][CallEndsInvocation]_vars

\* The second request of a run was deferred, missed the cache and returned
\* Deny after its one call of the service failed
TierSequencingWitness ==
  \E p \in Returned :
     /\ inv[p].reply = 2
     /\ inv[p].calls = 1
     /\ inv[p].loads = 2
     /\ inv[p].out.behavior = "deny"
     /\ nreq = 2

\* The step ends an invocation with the verdict of queryLLM
Concludes(p) == inv[p].pc = "llm" /\ inv'[p].pc = "done"

\* The step is the first step of a valid request of process p that the rules
\* defer, while the cache is enabled and the file holds an entry under the
\* key of the request that is not older than the time-to-live
FindsEntry(p) ==
  /\ nreq' = nreq + 1
  /\ inv'[p].raw \in ValidInputs
  /\ inv'[p].fast.decision = "llm"
  /\ config.cache.enabled
  /\ NextKey(p) \in DOMAIN loadCache(cacheFile)
  /\ ~Expired(loadCache(cacheFile)[NextKey(p)])

\* C24: with the cache enabled, the step that ends an invocation with the
\* result of queryLLM, the Deny of a failure included, leaves the result in
\* the cache file under the key of the request, and logs and returns it; a
\* later identical request inside the time-to-live whose entry is still in
\* the file is answered with the stored verdict from the cache, without a
\* call of the service, whatever credential and service are there by then.
FailureDenyCached ==
  [][\A p \in Procs :
       /\ (Concludes(p) /\ config.cache.enabled)
          => /\ NextKey(p) \in DOMAIN loadCache(cacheFile')
             /\ loadCache(cacheFile')[NextKey(p)]
                  = EntryAt(NextKey(p), inv'[p].llm.decision,
                            inv'[p].llm.reason, now, inv[p].toolName,
                            inv[p].toolInput, inv[p].projectRoot)
             /\ inv'[p].out.behavior = inv'[p].llm.decision
             /\ inv'[p].logged[1].decision = inv'[p].llm.decision
       /\ FindsEntry(p)
          => /\ inv'[p].pc = "done"
             /\ inv'[p].source = "cache"
             /\ inv'[p].calls = 0
             /\ inv'[p].out.behavior
                  = loadCache(cacheFile)[NextKey(p)].decision
             /\ inv'[p].out.behavior = "deny"
                => inv'[p].out.message
                     = loadCache(cacheFile)[NextKey(p)].reason
             /\ cacheFile' = cacheFile]_vars

\* The Deny of an invocation without a credential was cached, a credential
\* was provided, an hour passed, and the same request was answered Deny
\* from the cache
FailureDenyWitness ==
  \E p \in Returned :
     /\ inv[p].source = "cache"
     /\ inv[p].calls = 0
     /\ inv[p].out
          = Output("deny", "No LLM API key configured - cannot make intelligent decision")
     /\ getApiKey(config, environ) # ""
     /\ now = TickMs
     /\ loadCache(cacheFile)[KeyOf(p)].timestamp = 0

\* The saved policy text is older than the built-in one and is updated
\* automatically
Substitutes ==
  /\ config.llm.systemPromptVersion < CURRENT_SYSTEM_PROMPT_VERSION
  /\ config.autoUpdateSystemPrompt

\* The step in which queryLLM of process p calls the service
Queries(p) == inv[p].pc = "llm" /\ inv'[p].calls = 1

Without(file, gone) ==
  [k \in (DOMAIN loadCache(file)) \ gone |-> loadCache(file)[k]]

\* The keys a user may give to the clear by key
GivenKeys == RequestKeys \cup {"sha256:", "constructor"}

\* clearCache(file) empties the file and returns the number of its entries
ClearAllExact(file) ==
  /\ loadCache(clearCache(file).file) = EmptyCache
  /\ clearCache(file).result = Cardinality(DOMAIN loadCache(file))

\* clearCacheByDecision(file, d) removes the entries of decision d and no
\* other, returns their number, and leaves the file alone when there is none
ClearByDecisionExact(file, d) ==
  /\ loadCache(clearCacheByDecision(file, d).file)
       = Without(file, {k \in DOMAIN loadCache(file) :
                          loadCache(file)[k].decision = d})
  /\ clearCacheByDecision(file, d).result
       = Cardinality({k \in DOMAIN loadCache(file) :
                        loadCache(file)[k].decision = d})
  /\ clearCacheByDecision(file, d).result = 0
     => clearCacheByDecision(file, d).file = file

\* clearCacheByKey(file, k) removes the entry under k and no other, returns
\* true if and only if there was one, and leaves the file alone when there
\* was none
ClearByKeyExact(file, k) ==
  /\ loadCache(clearCacheByKey(file, k).file) = Without(file, {k})
  /\ clearCacheByKey(file, k).result = (k \in DOMAIN loadCache(file))
  /\ k \notin DOMAIN loadCache(file) => clearCacheByKey(file, k).file = file

\* C26: on every cache file, clearCache, clearCacheByDecision and
\* clearCacheByKey remove the entries they are asked to remove and no other,
\* return the number removed (true or false for the key), and do not write
\* the file when nothing matches.
ClearsExact ==
  /\ ClearAllExact(cacheFile)
  /\ \A d \in {"allow", "deny"} : ClearByDecisionExact(cacheFile, d)
  /\ \A k \in GivenKeys : ClearByKeyExact(cacheFile, k)

\* One of the fields contains the text, whatever the case of the letters
FieldHolds(fields, text) ==
  \E n \in 1..Len(fields) :
     Includes(toLowerCase(fields[n]), toLowerCase(text))

\* The fields of an entry that are searched: reason, tool name, serialized
\* tool input and, with withRoot, the project root
FieldsOf(entry, withRoot) ==
  <<entry.reason, entry.toolName, JsonStringify(entry.toolInput),
    IF withRoot THEN entry.projectRoot ELSE "">>

HoldTable ==
  {<<<<a[1], a[2], w>>, FieldHolds(FieldsOf(a[1], w), a[2])>> :
     a \in GrepArgs, w \in BOOLEAN}

\* The keys of the entries of the file of which a field contains the text
HoldersOf(file, text, withRoot) ==
  {k \in DOMAIN loadCache(file) :
     Lookup(HoldTable, <<Searched(loadCache(file)[k]), text, withRoot>>,
            FieldHolds(FieldsOf(loadCache(file)[k], withRoot), text))}

\* clearCacheByGrep(file, text) removes the entries under the keys of gone
\* and no other, returns their number, and leaves the file alone when there
\* is none
GrepClears(file, text, gone) ==
  /\ loadCache(clearCacheByGrep(file, text).file) = Without(file, gone)
  /\ clearCacheByGrep(file, text).result = Cardinality(gone)
  /\ gone = {} => clearCacheByGrep(file, text).file = file

\* C27 as stated: the clear by text removes the entries whose reason, tool
\* name or serialized tool input contains the text (case-insensitively) and
\* returns their number; every other entry stays as it is.
GrepClearsThreeFields ==
  \A t \in 1..Len(GrepTexts) :
     GrepClears(cacheFile, GrepTexts[t],
                HoldersOf(cacheFile, GrepTexts[t], FALSE))

\* C27 as amended: the clear by text removes the entries whose tool name,
\* reason, project root or serialized tool input contains the text
\* (case-insensitively) and returns their number; every other entry stays as
\* it is, and the file is not written when there is none.
GrepClearsFourFields ==
  \A t \in 1..Len(GrepTexts) :
     GrepClears(cacheFile, GrepTexts[t],
                HoldersOf(cacheFile, GrepTexts[t], TRUE))

\* The file holds an entry that the text Proj matches in the project root
\* alone, and an entry that it does not match
GrepWitness ==
  /\ HoldersOf(cacheFile, "Proj", FALSE) = {}
  /\ HoldersOf(cacheFile, "Proj", TRUE) # {}
  /\ HoldersOf(cacheFile, "Proj", TRUE) # DOMAIN loadCache(cacheFile)
  /\ clearCacheByGrep(cacheFile, "Proj").result = 1

\* The replies of the judgment service that pass the schema and allow
AllowReplies ==
  {n \in (1..Len(ServiceReplies)) \ FailedReplies :
     GetKey(ServiceReplies[n].json, "decision") = "allow"}

\* Where the Allow of a returned invocation comes from: a rule, a reply of
\* the service to this invocation that passes the schema and allows, or an
\* entry of the cache under the key of the request that holds allow
AllowHasSource ==
  \A p \in Returned :
     inv[p].out.behavior = "allow"
     => \/ inv[p].source = "fast" /\ inv[p].fast.decision = "allow"
        \/ /\ inv[p].source = "llm"
           /\ inv[p].calls = 1
           /\ inv[p].reply \in AllowReplies
        \/ /\ inv[p].source = "cache"
           /\ inv[p].cached.decision = "allow"
           /\ inv[p].cached.key = KeyOf(p)

\* The entry returned by a lookup is in the file and not older than the
\* time-to-live; an entry that holds allow and is new in the file was stored
\* by the step that ended an invocation of that key with an allowing reply
AllowEntriesEarned ==
  \A p \in Procs :
     /\ (nreq' = nreq + 1 /\ inv'[p].source = "cache")
        => /\ NextKey(p) \in DOMAIN loadCache(cacheFile)
           /\ inv'[p].cached = loadCache(cacheFile)[NextKey(p)]
           /\ ~Expired(loadCache(cacheFile)[NextKey(p)])
     /\ \A k \in DOMAIN loadCache(cacheFile') :
           loadCache(cacheFile')[k].decision = "allow"
           => \/ /\ k \in DOMAIN loadCache(cacheFile)
                 /\ loadCache(cacheFile')[k] = loadCache(cacheFile)[k]
              \/ /\ Concludes(p)
                 /\ NextKey(p) = k
                 /\ inv'[p].calls = 1
                 /\ inv'[p].reply \in AllowReplies

\* C28 (allow provenance): an invocation returns Allow only after a rule
\* allowed, after the judgment service answered this request with a reply
\* that passes the schema and allows, or from an unexpired entry of the
\* cache under the key of the request that holds allow; and an allow entry
\* enters the cache only from such a reply for that key.  No failure makes
\* an allow entry or an Allow.
AllowProvenance == [] AllowHasSource /\ [][AllowEntriesEarned]_vars

\* The first request of a run was allowed by a reply of the service; the
\* second, whose call of the service failed, returned Deny and left a deny
\* entry in the cache
AllowProvenanceWitness ==
  /\ \E p \in Returned :
        /\ inv[p].source = "llm"
        /\ inv[p].reply \in FailedReplies
        /\ inv[p].out.behavior = "deny"
        /\ KeyOf(p) \in DOMAIN loadCache(cacheFile)
        /\ loadCache(cacheFile)[KeyOf(p)].decision = "deny"
  /\ Len(logFile) = 2
  /\ logFile[1].entry.decision = "allow"
  /\ logFile[1].entry.decisionSource = "llm"

\* C29: a lookup that returns an entry leaves the cache file as it is (no
\* write, no new timestamp); an entry older than the time-to-live, counted
\* from the verdict that stored it, is not returned however often it was
\* returned before; and the timestamp under a key changes only in the step
\* that stores a verdict of queryLLM for that key.
HitLeavesStore ==
  [][\A p \in Procs :
       /\ (nreq' = nreq + 1 /\ inv'[p].source = "cache")
          => /\ cacheFile' = cacheFile
             /\ inv'[p].saves = 0
             /\ now - inv'[p].cached.timestamp
                  <= config.cache.ttlHours * TickMs
       /\ ( /\ nreq' = nreq + 1
            /\ inv'[p].loads > 0
            /\ NextKey(p) \in DOMAIN loadCache(cacheFile)
            /\ Expired(loadCache(cacheFile)[NextKey(p)]) )
          => inv'[p].pc = "llm"
       /\ \A k \in DOMAIN loadCache(cacheFile') :
             ( k \notin DOMAIN loadCache(cacheFile)
               \/ loadCache(cacheFile')[k].timestamp
                    # loadCache(cacheFile)[k].timestamp )
             => /\ Concludes(p)
                /\ NextKey(p) = k
                /\ loadCache(cacheFile')[k].timestamp = now]_vars

\* The entry stored at time 0 was returned one hour later, and when the
\* same request came after another hour it was not returned any more
HitLeavesStoreWitness ==
  /\ now = 2 * TickMs
  /\ Len(logFile) = 1
  /\ logFile[1].entry.decisionSource = "cache"
  /\ logFile[1].timestamp = TickMs
  /\ \E p \in Procs :
        /\ inv[p].pc = "llm"
        /\ inv[p].toolName = logFile[1].entry.toolName
        /\ inv[p].projectRoot = logFile[1].entry.projectRoot
        /\ KeyOf(p) \notin DOMAIN loadCache(cacheFile)

\* The step in which the saveCache of process p begins
BeginsSave(p) == inv[p].pc = "open" /\ inv'[p].pc = "write"

\* C30: beside clear commands, the save of an invocation brings back no
\* entry that a completed clear has removed: when the save begins, every
\* entry of the copy that is saved is in the cache file, except the verdict
\* of queryLLM that the invocation stores under the key of its request.
ClearIsDurable ==
  [][\A p \in Racers :
       BeginsSave(p)
       => \A k \in DOMAIN loadCache(inv[p].held) :
             \/ k = KeyOf(p) /\ inv[p].source = "llm"
             \/ k \in DOMAIN loadCache(cacheFile)]_vars

====
